---- MODULE Spec2Model ----
(***************************************************************************)
(* Model of the TouchDesigner MCP server (td_mcp_server_auso_v2.py).       *)
(*                                                                         *)
(* The HTTP side (TouchDesignerMCPHandler) registers a correlation entry   *)
(* in _pending_results, schedules a script on the TouchDesigner main       *)
(* thread with run(code, delayFrames=1) and blocks in _wait_for_result.    *)
(* The main thread runs the script, which calls one of the _run_*          *)
(* payloads; the payload mutates the node graph and calls _store_result.   *)
(*                                                                         *)
(* Every statement of _tool / _wait_for_result / _store_result that reads  *)
(* or writes shared state is its own step, so that the two threads         *)
(* interleave as the Python threads do.                                    *)
(***************************************************************************)
EXTENDS Integers, Sequences, FiniteSets, TLC

\* ------------------------------------------------------------------------
\* Bounds of the model
\* ------------------------------------------------------------------------
\* number of HTTP requests a behaviour may contain
MaxReq == 2
\* seconds of wall-clock time that pass in one Tick step
TickSeconds == 10

\* ------------------------------------------------------------------------
\* Program constants
\* ------------------------------------------------------------------------
\* _handle_mcp: "Timeouts: 10s reads, 15s mutations, 30s heavy ops"
TimeoutRead == 10
TimeoutMutate == 15
TimeoutHeavy == 30

Requests == 1 .. MaxReq

\* A path is a sequence of components, a component is <<base name, index>>:
\* "/project1/circle2" is << <<"project",1>>, <<"circle",2>> >>.
ParentPath == << <<"project", 1>> >>
ChildPath(base, i) == Append(ParentPath, <<base, i>>)
\* the DAT that launched the server (start_mcp_server: dat_op.path)
ControlDat == ChildPath("text", 1)
\* a path that resolves to no operator
GonePath == << <<"gone", 1>> >>
\* the hard-wired fallbacks of the dispatch script:
\* op('/project1/mcp_server') or op('mcp_server') or op('/mcp_server')
FallbackDatPaths == { ChildPath("mcp_server", 0), << <<"mcp_server", 0>> >> }

\* Python None in a result slot, and in an error slot
NoResult == [kind |-> "None"]
NoError == "<None>"

VARIABLES
    \* ---- HTTP side ------------------------------------------------------
    method,           \* request -> method name of the request ("" before it arrives)
    arg,              \* request -> its argument (type label, path or code)
    pc,               \* request -> position of the handler serving it
    pending_results,  \* _pending_results: the set of registered request ids
    entry,            \* request -> the entry object {'event','result','error'}
    elapsed,          \* request -> seconds spent so far in event.wait(timeout)
    w_entry,          \* request -> _wait_for_result's local "entry" is truthy
    w_result,         \* request -> _wait_for_result's local "result"
    w_error,          \* request -> _wait_for_result's local "error"
    responses,        \* request -> sequence of bodies sent with _send_json
    dat_path,         \* self.server.dat_path
    \* ---- TouchDesigner main thread ---------------------------------------
    moduleLoaded,     \* sys.modules.get(MODULE_KEY) is not None
    queue,            \* scripts handed to run(), oldest first
    mpc,              \* position of the main thread
    cur,              \* request id of the script being run (0 when idle)
    s_calls,          \* _store_result calls the payload makes: the one being
                      \* carried out (head) and those still to come
    s_entry,          \* request id of _store_result's local "entry" (0: falsy)
    nodes,            \* valid operators under /project1
    ops,              \* valid operator -> its type, nodeX, nodeY and inputs
    childOrder,       \* the order in which the host lists parent_op.children
    OP_TYPES_BY_FAMILY,   \* family -> class names of the family, in insertion order
    OP_TYPES_NORMALIZED,  \* base token -> list of (family, class name)
    connection_history,   \* server module -> its connection_history
    \* ---- observation (history) variables ---------------------------------
    opPhase,          \* request -> "none" | "queued" | "running" | "finished"
    opRan,            \* request -> the _run_* payload was entered
    storeCalls,       \* request -> number of _store_result calls made for it
    signals,          \* request -> number of event.set() calls on its entry
    discarded,        \* request -> number of _store_result calls that found no entry
    raised,           \* request -> exception raised inside its payload ("" if none)
    escaped,          \* an exception left the script run by the main thread
    execThread,       \* request -> thread that carried the command out
    submitOrder,      \* request ids in the order of their run() calls
    startOrder,       \* request ids in the order the main thread started them
    effects,          \* log of graph mutations: <<request, kind, path>>
    call              \* the last call of _run_create: its parameters and outcome

httpVars == <<method, arg, pc, pending_results, entry, elapsed, w_entry,
              w_result, w_error, responses, dat_path>>
globalVars == <<OP_TYPES_BY_FAMILY, OP_TYPES_NORMALIZED, connection_history>>
mainVars == <<moduleLoaded, queue, mpc, cur, s_calls, s_entry, nodes, ops, childOrder,
              globalVars>>
histVars == <<opPhase, opRan, storeCalls, signals, discarded, raised, escaped, execThread,
              submitOrder, startOrder, effects, call>>
vars == <<httpVars, mainVars, histVars>>

\* ------------------------------------------------------------------------
\* Requests the transport can deliver
\* ------------------------------------------------------------------------
\* the methods of the model that _handle_mcp hands to _tool
ToolMethods == {"create", "delete", "list", "execute_python"}

\* A label, a code string or a path is given as a sequence of <<text, index>>
\* components; an empty sequence is a missing (falsy) argument.
Label(text) == << <<text, 0>> >>

Inputs ==
    { [method |-> "create", arg |-> a] : a \in {Label("circle"), <<>>} }
    \cup { [method |-> "delete", arg |-> a] : a \in {ChildPath("circle", 1), ControlDat} }
    \cup { [method |-> "list", arg |-> ParentPath] }
    \cup { [method |-> "execute_python", arg |-> Label("assert False")] }
    \cup { [method |-> "set_dat", arg |-> GonePath] }
    \cup { [method |-> "types_json", arg |-> <<>>] }

\* ------------------------------------------------------------------------
\* The type registry: _norm_name, _collect_td_op_types, _resolve_type.
\* A Python string is the sequence of its characters.
\* ------------------------------------------------------------------------
\* str.lower() on one character
LowerChar(c) ==
    LET up == [A |-> "a", B |-> "b", C |-> "c", D |-> "d", E |-> "e", F |-> "f", G |-> "g", H |-> "h", I |-> "i", J |-> "j", K |-> "k", L |-> "l", M |-> "m", N |-> "n", O |-> "o", P |-> "p", Q |-> "q", R |-> "r", S |-> "s", T |-> "t", U |-> "u", V |-> "v", W |-> "w", X |-> "x", Y |-> "y", Z |-> "z"]
    IN IF c \in DOMAIN up THEN up[c] ELSE c

\* str.lower()
LowerStr(s) == [i \in DOMAIN s |-> LowerChar(s[i])]

\* str.upper() on one character
UpperChar(c) ==
    LET low == [a |-> "A", b |-> "B", c |-> "C", d |-> "D", e |-> "E", f |-> "F", g |-> "G", h |-> "H", i |-> "I", j |-> "J", k |-> "K", l |-> "L", m |-> "M", n |-> "N", o |-> "O", p |-> "P", q |-> "Q", r |-> "R", s |-> "S", t |-> "T", u |-> "U", v |-> "V", w |-> "W", x |-> "X", y |-> "Y", z |-> "Z"]
    IN IF c \in DOMAIN low THEN low[c] ELSE c

\* str.upper()
UpperStr(s) == [i \in DOMAIN s |-> UpperChar(s[i])]

\* s.endswith(suf)
EndsWith(s, suf) == Len(s) >= Len(suf) /\ SubSeq(s, Len(s) - Len(suf) + 1, Len(s)) = suf

\* s.startswith(pre)
StartsWith(s, pre) == Len(s) >= Len(pre) /\ SubSeq(s, 1, Len(pre)) = pre

\* "sub in s"
Contains(s, sub) ==
    \E i \in 0 .. (Len(s) - Len(sub)) : SubSeq(s, i + 1, i + Len(sub)) = sub

\* str.strip(): blanks at both ends removed
RECURSIVE StripStr(_)
StripStr(s) ==
    IF s = <<>> THEN s
    ELSE IF Head(s) = " " THEN StripStr(Tail(s))
    ELSE IF s[Len(s)] = " " THEN StripStr(SubSeq(s, 1, Len(s) - 1))
    ELSE s

\* _norm_name, line 162: the suffixes in the order the loop tries them
NormSuffixes == <<<<"t", "o", "p">>, <<"c", "h", "o", "p">>, <<"s", "o", "p">>, <<"d", "a", "t">>, <<"c", "o", "m", "p">>, <<"m", "a", "t">>>>

\* _norm_name, lines 162-164: each suffix in turn is cut off when the
\* string ends with it
RECURSIVE CutSuffixes(_, _)
CutSuffixes(s, k) ==
    IF k > Len(NormSuffixes) THEN s
    ELSE IF EndsWith(s, NormSuffixes[k])
         THEN CutSuffixes(SubSeq(s, 1, Len(s) - Len(NormSuffixes[k])), k + 1)
         ELSE CutSuffixes(s, k + 1)

\* _norm_name
norm_name(s) ==
    CutSuffixes(SelectSeq(LowerStr(s), LAMBDA c : c \notin {" ", "-", "_"}), 1)

\* the keys of OP_TYPES_BY_FAMILY in the order of the dict literal, line 168
FamilyKeys == <<<<"T", "O", "P">>, <<"C", "H", "O", "P">>, <<"S", "O", "P">>, <<"D", "A", "T">>, <<"C", "O", "M", "P">>, <<"M", "A", "T">>>>

\* variant: the data family comes first
FAMILY_ORDER_DataFirst ==
    <<<<"D", "A", "T">>, <<"M", "A", "T">>, <<"C", "O", "M", "P">>, <<"S", "O", "P">>,
      <<"C", "H", "O", "P">>, <<"T", "O", "P">>>>

\* FAMILY_ORDER, line 274
FAMILY_ORDER == <<<<"T", "O", "P">>, <<"C", "H", "O", "P">>, <<"S", "O", "P">>, <<"C", "O", "M", "P">>, <<"M", "A", "T">>, <<"D", "A", "T">>>>

\* _collect_td_op_types, lines 183-186: the family of a class name, <<>>
\* when the name ends with no family suffix
FamilyOfName(name) ==
    LET hits == {k \in DOMAIN FamilyKeys : EndsWith(name, FamilyKeys[k])}
    IN IF hits = {} THEN <<>>
       ELSE FamilyKeys[CHOOSE k \in hits : \A j \in hits : k <= j]

\* _collect_td_op_types: OP_TYPES_NORMALIZED for the class names dir(td)
\* lists, in that order
RECURSIVE CollectNormalized(_)
CollectNormalized(names) ==
    IF names = <<>> THEN <<>>
    ELSE LET rest == CollectNormalized(SubSeq(names, 1, Len(names) - 1))
             name == names[Len(names)]
             fam == FamilyOfName(name)
             base == norm_name(name)
         IN IF fam = <<>> THEN rest
            ELSE [b \in DOMAIN rest \cup {base} |->
                    IF b = base
                    THEN (IF base \in DOMAIN rest THEN rest[base] ELSE <<>>)
                            \o << [fam |-> fam, name |-> name] >>
                    ELSE rest[b]]

\* _collect_td_op_types: OP_TYPES_BY_FAMILY, each family's class names in
\* the order they were inserted
CollectByFamily(names) ==
    [fam \in {FamilyKeys[k] : k \in DOMAIN FamilyKeys} |->
        SelectSeq(names, LAMBDA n : FamilyOfName(n) = fam)]


\* SYNONYM_MAP.get(key, default), lines 199-243: the entries for the labels
\* of ResolveLabels
SYNONYM_MAP_get(key, default) ==
    CASE key = <<"n", "u", "l", "l", " ", "s", "o", "p">> -> <<"n", "u", "l", "l", "s", "o", "p">>
      [] key = <<"n", "u", "l", "l", "s", "o", "p">> -> <<"n", "u", "l", "l", "s", "o", "p">>
      [] key = <<"n", "u", "l", "l", " ", "c", "h", "o", "p">> -> <<"n", "u", "l", "l", "c", "h", "o", "p">>
      [] key = <<"n", "u", "l", "l", " ", "t", "o", "p">> -> <<"n", "u", "l", "l", "t", "o", "p">>
      [] key = <<"m", "a", "t", "e", "r", "i", "a", "l">> -> <<"p", "h", "o", "n", "g">>
      [] key = <<"t", "x", "t">> -> <<"t", "e", "x", "t">>
      [] key = <<"p", "h", "o", "n", "g", "m", "a", "t">> -> <<"p", "h", "o", "n", "g">>
      [] OTHER -> default


\* DEFAULT_FAMILY_HINTS.get(base), lines 246-271: the entries for the base
\* tokens the labels of ResolveLabels lead to; <<>> is None
DEFAULT_FAMILY_HINTS_get(base) ==
    CASE base = <<"n", "u", "l", "l">> -> <<"T", "O", "P">>
      [] base = <<"n", "u", "l", "l", "t", "o", "p">> -> <<"T", "O", "P">>
      [] base = <<"c", "i", "r", "c", "l", "e">> -> <<"T", "O", "P">>
      [] base = <<"n", "o", "i", "s", "e">> -> <<"T", "O", "P">>
      [] base = <<"c", "o", "n", "s", "t", "a", "n", "t">> -> <<"C", "H", "O", "P">>
      [] base = <<"n", "u", "l", "l", "c", "h", "o", "p">> -> <<"C", "H", "O", "P">>
      [] base = <<"n", "u", "l", "l", "s", "o", "p">> -> <<"S", "O", "P">>
      [] base = <<"t", "e", "x", "t">> -> <<"D", "A", "T">>
      [] base = <<"p", "h", "o", "n", "g">> -> <<"M", "A", "T">>
      [] base = <<"c", "o", "n", "s", "t", "a", "n", "t", "m", "a", "t">> -> <<"M", "A", "T">>
      [] OTHER -> <<>>

\* the value None of a type, a family or a hint
None == <<>>

\* the first element of seq that satisfies Test, None when there is none
FirstThat(seq, Test(_)) ==
    LET hits == SelectSeq(seq, Test) IN IF hits = <<>> THEN None ELSE Head(hits)

\* _resolve_type, lines 284-296: the family a caller's hint stands for
HintFamily(family_hint) ==
    IF family_hint = None THEN None
    ELSE LET up == UpperStr(StripStr(family_hint))
             fh == IF EndsWith(up, <<"S">>) THEN SubSeq(up, 1, Len(up) - 1) ELSE up
         IN IF \E k \in DOMAIN FamilyKeys : FamilyKeys[k] = fh THEN fh
            ELSE FirstThat(FamilyKeys, LAMBDA k : StartsWith(LowerStr(k), LowerStr(fh)))

\* concatenation of the sequences of a sequence
RECURSIVE Flatten(_)
Flatten(seqs) == IF seqs = <<>> THEN <<>> ELSE Head(seqs) \o Flatten(Tail(seqs))

\* _resolve_type, lines 326-340: substring search over all registered type
\* names, family by family in FAMILY_ORDER
FuzzyScan(base, fam_hint, byFamily) ==
    LET all == Flatten([k \in DOMAIN FAMILY_ORDER |-> byFamily[FAMILY_ORDER[k]]])
    IN FirstThat(all, LAMBDA name :
                    /\ Contains(LowerStr(name), base)
                    /\ (fam_hint # None => FamilyOfName(name) = fam_hint))

\* variant: the substring search over the class names, in the order of
\* dir(td), comes before the lookup of the base token
ResolveType_FuzzyFirst(label, family_hint, byFamily, normalized) ==
    IF label = <<>> THEN None
    ELSE LET base == norm_name(SYNONYM_MAP_get(LowerStr(label), label))
             all == Flatten([k \in DOMAIN FamilyKeys |-> byFamily[FamilyKeys[k]]])
             hits == {n \in {all[k] : k \in DOMAIN all} : Contains(LowerStr(n), base)}
         IN IF hits = {} THEN None
            ELSE CHOOSE n \in hits : \A m \in hits : Len(n) >= Len(m)

\* _resolve_type(label, family_hint): the class found (its name), or None
ResolveType(label, family_hint, byFamily, normalized) ==
    IF label = <<>> THEN None
    ELSE LET given == HintFamily(family_hint)
             base == norm_name(SYNONYM_MAP_get(LowerStr(label), label))
             candidates == IF base \in DOMAIN normalized THEN normalized[base] ELSE <<>>
             fam_hint == IF given = None THEN DEFAULT_FAMILY_HINTS_get(base) ELSE given
             hinted == FirstThat(candidates, LAMBDA c : c.fam = fam_hint)
             ordered == Flatten([k \in DOMAIN FAMILY_ORDER |->
                                   SelectSeq(candidates, LAMBDA c : c.fam = FAMILY_ORDER[k])])
         IN IF \E fam \in DOMAIN byFamily : \E k \in DOMAIN byFamily[fam] : byFamily[fam][k] = label
            THEN label
            ELSE IF fam_hint # None /\ hinted # None THEN hinted.name
            ELSE IF Len(candidates) = 1 THEN candidates[1].name
            ELSE IF candidates # <<>> /\ fam_hint = None THEN ordered[1].name
            ELSE FuzzyScan(base, fam_hint, byFamily)

\* class names of the host module td, in the order of dir(td)
TdTypesPlain ==
    << <<"c", "i", "r", "c", "l", "e", "G", "e", "n", "C", "H", "O", "P">>,
       <<"c", "i", "r", "c", "l", "e", "T", "O", "P">> >>

\* class names of the host module td, in the order of dir(td)
TdTypesRich ==
    << <<"c", "o", "n", "s", "t", "a", "n", "t", "C", "H", "O", "P">>,
       <<"c", "o", "n", "s", "t", "a", "n", "t", "M", "A", "T">>,
       <<"c", "o", "n", "s", "t", "a", "n", "t", "T", "O", "P">>,
       <<"i", "n", "C", "H", "O", "P">>,
       <<"i", "n", "S", "O", "P">>,
       <<"i", "n", "T", "O", "P">>,
       <<"n", "u", "l", "l", "C", "H", "O", "P">>,
       <<"n", "u", "l", "l", "S", "O", "P">>,
       <<"n", "u", "l", "l", "T", "O", "P">> >>

\* the labels callers ask for
ResolveLabels ==
    { <<>>,
      <<"c", "i", "r", "c", "l", "e">>,
      <<"C", "i", "r", "c", "l", "e", " ", "T", "O", "P">>,
      <<"c", "o", "n", "s", "t", "a", "n", "t">>,
      <<"c", "o", "n", "s", "t", "a", "n", "t", "m", "a", "t">>,
      <<"c", "o", "n", "s", "t", "a", "n", "t", "T", "O", "P">>,
      <<"n", "u", "l", "l", "c", "h", "o", "p">>,
      <<"n", "u", "l", "l", " ", "s", "o", "p">>,
      <<"i", "n">>,
      <<"g", "e", "n">>,
      <<"t", "o", "p">>,
      <<"-", "s", "o", "p">>,
      <<"z", "z", "z">> }

\* the family hints callers give; None: no hint
ResolveHints ==
    { None,
      <<"t", "o", "p">>,
      <<"S", "O", "P", "s">>,
      <<" ", "c", "h", "o", "p", " ">>,
      <<"x", "y", "z">> }

\* the server modules that keep a connection_history:
\* td_mcp_server_auso_v2.py (line 68) and td_mcp_server.py (line 601)
ServerModules == {"td_mcp_server_auso_v2", "td_mcp_server"}

\* the module has been imported: _collect_td_op_types has filled the two
\* dictionaries from the class names of td, connection_history is empty
GlobalsInit(names) ==
    /\ OP_TYPES_BY_FAMILY = CollectByFamily(names)
    /\ OP_TYPES_NORMALIZED = CollectNormalized(names)
    /\ connection_history = [m \in ServerModules |-> <<>>]

\* ------------------------------------------------------------------------
\* Initial state: the server has just been started by start_mcp_server
\* ------------------------------------------------------------------------
\* writer: the request whose script last wrote the entry (0: nobody)
NewEntry == [event |-> FALSE, result |-> NoResult, error |-> NoError, writer |-> 0]

\* a Python value: its type and its content; a float is held in tenths
PyVal(t, v) == [t |-> t, v |-> v]

\* obj.par of an operator as the host makes it: one parameter of each value
\* type the payload _run_set tells apart (type(par.val)), none with an
\* expression
HostPars ==
    [Toggle |-> [val |-> PyVal("bool", FALSE), expr |-> <<>>],
     Count  |-> [val |-> PyVal("int", 0), expr |-> <<>>],
     Gain   |-> [val |-> PyVal("float", 10), expr |-> <<>>],
     Label  |-> [val |-> PyVal("str", ""), expr |-> <<>>]]

\* an operator as the host creates it: no inputs yet
NewOp(cls, fam, x, y, serial, placed, tries) ==
    [type |-> cls, family |-> fam, X |-> x, Y |-> y, inputs |-> <<>>,
     serial |-> serial, placed |-> placed, tries |-> tries, par |-> HostPars]

\* no call of _run_create has been made
NoCall == [valid |-> FALSE]

\* no request has arrived and the main thread is idle
DispatchInit ==
    /\ method = [r \in Requests |-> ""]
    /\ arg = [r \in Requests |-> <<>>]
    /\ pc = [r \in Requests |-> "new"]
    /\ pending_results = {}
    /\ entry = [r \in Requests |-> NewEntry]
    /\ elapsed = [r \in Requests |-> 0]
    /\ w_entry = [r \in Requests |-> FALSE]
    /\ w_result = [r \in Requests |-> NoResult]
    /\ w_error = [r \in Requests |-> NoError]
    /\ responses = [r \in Requests |-> <<>>]
    /\ dat_path = ControlDat
    /\ queue = <<>>
    /\ mpc = "idle"
    /\ cur = 0
    /\ s_calls = <<>>
    /\ s_entry = 0
    /\ opPhase = [r \in Requests |-> "none"]
    /\ opRan = [r \in Requests |-> FALSE]
    /\ storeCalls = [r \in Requests |-> 0]
    /\ signals = [r \in Requests |-> 0]
    /\ discarded = [r \in Requests |-> 0]
    /\ raised = [r \in Requests |-> ""]
    /\ escaped = FALSE
    /\ execThread = [r \in Requests |-> "none"]
    /\ submitOrder = <<>>
    /\ startOrder = <<>>
    /\ effects = <<>>
    /\ call = NoCall

\* the DAT that launched the server, at the place (x, y) of the network
\* editor where the user put it
LaunchDat(x, y) == [p \in {ControlDat} |-> NewOp("textDAT", "DAT", x, y, 1, "host", 0)]

\* /project1 holds the launching DAT, away from the cells of the layout
\* grid; the order of parent_op.children has no effect on the requests of
\* this specification, which create no two operators with the same nodeX
Init ==
    /\ DispatchInit
    /\ GlobalsInit(TdTypesRich)
    /\ moduleLoaded \in BOOLEAN
    /\ nodes = {ControlDat}
    /\ ops = LaunchDat(-220, 160)
    /\ childOrder = "oldest_first"

\* ------------------------------------------------------------------------
\* HTTP side
\* ------------------------------------------------------------------------
\* ThreadingHTTPServer derives from HTTPServer only (no ThreadingMixIn):
\* serve_forever() runs one handler to its end before it accepts the next
\* request, so a handler starts only when no other handler is active.
ServerFree == \A q \in Requests : pc[q] \in {"new", "done"}

\* uuid.uuid4(): a fresh identity; requests are numbered in arrival order
FreshId(r) == pc[r] = "new" /\ \A q \in Requests : q < r => pc[q] # "new"

\* do_POST: the body is parsed and routed by URL path
do_POST(r) ==
    /\ FreshId(r)
    /\ ServerFree
    /\ \E in \in Inputs :
          /\ method' = [method EXCEPT ![r] = in.method]
          /\ arg' = [arg EXCEPT ![r] = in.arg]
          /\ pc' = [pc EXCEPT ![r] =
                      IF in.method = "types_json" THEN "types_json" ELSE "handle_mcp"]
    /\ UNCHANGED <<pending_results, entry, elapsed, w_entry, w_result, w_error,
                   responses, dat_path>>
    /\ UNCHANGED <<mainVars, histVars>>

\* variant: the read-only "list" is answered on the handler thread
UsesTool_ListInline(m) == m \in ToolMethods \ {"list"}

\* _handle_mcp's dispatch table: the methods that go through self._tool
UsesTool(m) == m \in ToolMethods

\* the timeout _handle_mcp passes to _tool
ToolTimeout(m) ==
    CASE m = "list" -> TimeoutRead
      [] m = "execute_python" -> TimeoutHeavy
      [] OTHER -> TimeoutMutate

\* _handle_mcp: either enter _tool, or serve set_dat on the handler thread
HandleMcp(r) ==
    /\ pc[r] = "handle_mcp"
    /\ IF UsesTool(method[r])
       THEN /\ pc' = [pc EXCEPT ![r] = "tool"]
            /\ UNCHANGED <<dat_path, responses, execThread>>
       ELSE /\ dat_path' = IF method[r] = "set_dat" THEN arg[r] ELSE dat_path
            /\ responses' = [responses EXCEPT ![r] =
                               Append(@, [kind |-> "result", req |-> r,
                                          op |-> method[r], data |-> {}])]
            /\ execThread' = [execThread EXCEPT ![r] = "http"]
            /\ pc' = [pc EXCEPT ![r] = "done"]
    /\ UNCHANGED <<method, arg, pending_results, entry, elapsed, w_entry,
                   w_result, w_error>>
    /\ UNCHANGED mainVars
    /\ UNCHANGED <<opPhase, opRan, storeCalls, signals, discarded, raised, escaped,
                   submitOrder, startOrder, effects, call>>

\* _handle_types_json: reads OP_TYPES_BY_FAMILY on the handler thread
HandleTypesJson(r) ==
    /\ pc[r] = "types_json"
    /\ responses' = [responses EXCEPT ![r] =
                        Append(@, [kind |-> "result", req |-> r,
                                   op |-> "types_json", data |-> {}])]
    /\ execThread' = [execThread EXCEPT ![r] = "http"]
    /\ pc' = [pc EXCEPT ![r] = "done"]
    /\ UNCHANGED <<method, arg, pending_results, entry, elapsed, w_entry,
                   w_result, w_error, dat_path>>
    /\ UNCHANGED mainVars
    /\ UNCHANGED <<opPhase, opRan, storeCalls, signals, discarded, raised, escaped,
                   submitOrder, startOrder, effects, call>>

\* _tool, lines 2100-2101: create the entry and register it under req_id
Tool_register(r) ==
    /\ pc[r] = "tool"
    /\ pending_results' = pending_results \cup {r}
    /\ entry' = [entry EXCEPT ![r] = NewEntry]
    /\ pc' = [pc EXCEPT ![r] = "run"]
    /\ UNCHANGED <<method, arg, elapsed, w_entry, w_result, w_error, responses,
                   dat_path>>
    /\ UNCHANGED <<mainVars, histVars>>

\* variant: creations are scheduled one frame later than the other methods
DelayFrames_ByMethod(m) == IF m = "create" THEN 2 ELSE 1

\* the delayFrames argument of run() in _tool
DelayFrames(m) == 1

\* _tool, line 2149: run(code, delayFrames=1).  The script carries the
\* function name, the serialized parameters and the request id.
Tool_run(r) ==
    /\ pc[r] = "run"
    /\ queue' = Append(queue, [rid |-> r, due |-> DelayFrames(method[r])])
    /\ submitOrder' = Append(submitOrder, r)
    /\ opPhase' = [opPhase EXCEPT ![r] = "queued"]
    /\ pc' = [pc EXCEPT ![r] = "wait_get"]
    /\ UNCHANGED <<method, arg, pending_results, entry, elapsed, w_entry,
                   w_result, w_error, responses, dat_path>>
    /\ UNCHANGED <<moduleLoaded, mpc, cur, s_calls, s_entry, nodes, ops, childOrder, globalVars>>
    /\ UNCHANGED <<opRan, storeCalls, signals, discarded, raised, escaped, execThread,
                   startOrder, effects, call>>

\* _wait_for_result, lines 53-55: entry = _pending_results.get(req_id)
WaitForResult_get(r) ==
    /\ pc[r] = "wait_get"
    /\ w_entry' = [w_entry EXCEPT ![r] = (r \in pending_results)]
    /\ elapsed' = [elapsed EXCEPT ![r] = 0]
    /\ pc' = [pc EXCEPT ![r] = IF r \in pending_results THEN "waiting" ELSE "return"]
    /\ UNCHANGED <<method, arg, pending_results, entry, w_result, w_error,
                   responses, dat_path>>
    /\ UNCHANGED <<mainVars, histVars>>

\* variant: the event is waited for without a timeout
WaitTimeout_Forever(r) == 1000000

\* the timeout argument of entry['event'].wait(...) in _wait_for_result:
\* the budget _tool was called with
WaitTimeout(r) == ToolTimeout(method[r])

\* event.wait(timeout) returns once the event is set or the timeout elapsed
WaitOver(r) == entry[r].event \/ elapsed[r] >= WaitTimeout(r)

\* wall-clock time passes while a handler is blocked in event.wait; the
\* wait is not held past its timeout by more than the granularity of time
Tick ==
    /\ \E r \in Requests : pc[r] = "waiting"
    /\ \A r \in Requests : pc[r] = "waiting" => ~WaitOver(r)
    /\ \A r \in Requests : pc[r] = "waiting" => elapsed[r] < TimeoutHeavy + TickSeconds
    /\ elapsed' = [r \in Requests |->
                      IF pc[r] = "waiting" THEN elapsed[r] + TickSeconds ELSE elapsed[r]]
    /\ UNCHANGED <<method, arg, pc, pending_results, entry, w_entry, w_result,
                   w_error, responses, dat_path>>
    /\ UNCHANGED <<mainVars, histVars>>

\* _wait_for_result, line 56: entry['event'].wait(timeout=timeout) returns
WaitForResult_wait(r) ==
    /\ pc[r] = "waiting"
    /\ WaitOver(r)
    /\ pc' = [pc EXCEPT ![r] = "read_result"]
    /\ UNCHANGED <<method, arg, pending_results, entry, elapsed, w_entry,
                   w_result, w_error, responses, dat_path>>
    /\ UNCHANGED <<mainVars, histVars>>

\* _wait_for_result, line 57: result = entry.get('result')
WaitForResult_read_result(r) ==
    /\ pc[r] = "read_result"
    /\ w_result' = [w_result EXCEPT ![r] = entry[r].result]
    /\ pc' = [pc EXCEPT ![r] = "read_error"]
    /\ UNCHANGED <<method, arg, pending_results, entry, elapsed, w_entry,
                   w_error, responses, dat_path>>
    /\ UNCHANGED <<mainVars, histVars>>

\* _wait_for_result, line 58: error = entry.get('error')
WaitForResult_read_error(r) ==
    /\ pc[r] = "read_error"
    /\ w_error' = [w_error EXCEPT ![r] = entry[r].error]
    /\ pc' = [pc EXCEPT ![r] = "pop"]
    /\ UNCHANGED <<method, arg, pending_results, entry, elapsed, w_entry,
                   w_result, responses, dat_path>>
    /\ UNCHANGED <<mainVars, histVars>>

\* variant: the entry is removed only when a delivery was signalled
Popped_OnlyDelivered(r) == IF entry[r].event THEN {r} ELSE {}

\* the keys _wait_for_result removes from _pending_results before returning
Popped(r) == {r}

\* variant: a caller that saw no delivery also withdraws its script
WaitForResult_pop_Cancel(r) ==
    /\ pc[r] = "pop"
    /\ pending_results' = pending_results \ Popped(r)
    /\ queue' = IF entry[r].event THEN queue
                ELSE SelectSeq(queue, LAMBDA sc : sc.rid # r)
    /\ pc' = [pc EXCEPT ![r] = "return"]
    /\ UNCHANGED <<method, arg, entry, elapsed, w_entry, w_result, w_error,
                   responses, dat_path>>
    /\ UNCHANGED <<moduleLoaded, mpc, cur, s_calls, s_entry, nodes, ops, childOrder, globalVars>>
    /\ UNCHANGED histVars

\* _wait_for_result, line 60: _pending_results.pop(req_id, None)
WaitForResult_pop(r) ==
    /\ pc[r] = "pop"
    /\ pending_results' = pending_results \ Popped(r)
    /\ pc' = [pc EXCEPT ![r] = "return"]
    /\ UNCHANGED <<method, arg, entry, elapsed, w_entry, w_result, w_error,
                   responses, dat_path>>
    /\ UNCHANGED <<mainVars, histVars>>

TimeoutText == "Timeout waiting for TouchDesigner response"

ErrorBody(r, text) == [kind |-> "error", req |-> r, text |-> text]

\* Python truth value of an error slot: None and '' are falsy
Truthy(error) == error # NoError /\ error # ""

\* _wait_for_result, lines 54-55 and 61-65: the value returned to _tool
WaitForResult_value(r, found, result, error) ==
    IF ~found THEN ErrorBody(r, "No pending request found")
    ELSE IF Truthy(error) THEN ErrorBody(r, error)
    ELSE IF result # NoResult THEN result
    ELSE ErrorBody(r, TimeoutText)

\* variant: after a Timeout reply the handler goes on waiting for the entry
\* and replies again
Tool_return_Rewait(r) ==
    /\ pc[r] = "return"
    /\ LET v == WaitForResult_value(r, w_entry[r], w_result[r], w_error[r])
       IN /\ responses' = [responses EXCEPT ![r] = Append(@, v)]
          /\ pc' = [pc EXCEPT ![r] =
                      IF v.kind = "error" /\ v.text = TimeoutText /\ Len(responses[r]) = 0
                      THEN "read_result" ELSE "done"]
    /\ UNCHANGED <<method, arg, pending_results, entry, elapsed, w_entry,
                   w_result, w_error, dat_path>>
    /\ UNCHANGED <<mainVars, histVars>>

\* _tool, lines 2151-2158, and _handle_mcp, line 2095: the value is wrapped
\* as MCP content and sent with _send_json
Tool_return(r) ==
    /\ pc[r] = "return"
    /\ responses' = [responses EXCEPT ![r] =
                        Append(@, WaitForResult_value(r, w_entry[r], w_result[r],
                                                      w_error[r]))]
    /\ pc' = [pc EXCEPT ![r] = "done"]
    \* the locals of _wait_for_result end with the call
    /\ w_entry' = [w_entry EXCEPT ![r] = FALSE]
    /\ w_result' = [w_result EXCEPT ![r] = NoResult]
    /\ w_error' = [w_error EXCEPT ![r] = NoError]
    /\ elapsed' = [elapsed EXCEPT ![r] = 0]
    /\ UNCHANGED <<method, arg, pending_results, entry, dat_path>>
    /\ UNCHANGED <<mainVars, histVars>>

\* ------------------------------------------------------------------------
\* TouchDesigner main thread
\* ------------------------------------------------------------------------
\* positions in the queue of the scripts whose delay has run out
Due(q) == {i \in DOMAIN q : q[i].due = 0}

RemoveAt(q, i) == SubSeq(q, 1, i - 1) \o SubSeq(q, i + 1, Len(q))

\* run(code, delayFrames=n): the host counts a frame; it runs every script
\* that is due before it counts the next one
Frame ==
    /\ mpc = "idle"
    /\ queue # <<>>
    /\ Due(queue) = {}
    /\ queue' = [i \in DOMAIN queue |-> [queue[i] EXCEPT !.due = @ - 1]]
    /\ UNCHANGED <<moduleLoaded, mpc, cur, s_calls, s_entry, nodes, ops, childOrder, globalVars>>
    /\ UNCHANGED <<httpVars, histVars>>

\* the main thread is free to start the next script
MainFree == mpc = "idle"

\* the host starts the oldest script that is due
MainBegin ==
    /\ MainFree
    /\ Due(queue) # {}
    /\ LET i == CHOOSE k \in Due(queue) : \A j \in Due(queue) : k <= j
           r == queue[i].rid
       IN /\ queue' = RemoveAt(queue, i)
          /\ cur' = r
          /\ opPhase' = [opPhase EXCEPT ![r] = "running"]
          /\ startOrder' = Append(startOrder, r)
    /\ mpc' = "dispatch"
    /\ UNCHANGED <<moduleLoaded, s_calls, s_entry, nodes, ops, childOrder, globalVars>>
    /\ UNCHANGED httpVars
    /\ UNCHANGED <<opRan, storeCalls, signals, discarded, raised, escaped, execThread,
                   submitOrder, effects, call>>

\* op(path) resolves to a valid operator
OpValid(path) == path \in nodes

\* the dispatch script of _tool, lines 2110-2147: where the payload is found
EntryPoint ==
    IF moduleLoaded THEN "module"
    ELSE IF OpValid(dat_path) \/ \E p \in FallbackDatPaths : OpValid(p) THEN "dat"
    ELSE "none"

\* the dispatch script, lines 2141-2147: m = sys.modules.get(mk) is None on
\* this branch, so "if m: m._store_result(rid, error=...)" stores nothing
Dispatch ==
    /\ mpc = "dispatch"
    /\ mpc' = IF EntryPoint = "none" THEN "end" ELSE "payload"
    /\ UNCHANGED <<moduleLoaded, queue, cur, s_calls, s_entry, nodes, ops, childOrder, globalVars>>
    /\ UNCHANGED <<httpVars, histVars>>

\* variant: the clauses read "except ValueError"
ExceptException_ValueErrorOnly(exc) == exc = "ValueError"

\* "except Exception" (in every _run_* payload and in the dispatch script)
\* matches the exception classes the payloads raise
ExceptException(exc) == exc \in {"ValueError", "RuntimeError", "AssertionError"}

\* try body ended normally: "if req_id: _store_result(req_id, result)"
OnSuccess(result) == << [result |-> result, error |-> NoError] >>

\* except clause: "if req_id: _store_result(req_id, error=str(e))"
OnException(msg) == << [result |-> NoResult, error |-> msg] >>

Ok(result, newNodes, log) ==
    [exc |-> "", msg |-> "", calls |-> OnSuccess(result), nodes |-> newNodes,
     ops |-> [p \in newNodes |-> ops[p]], log |-> log, call |-> call]

Raise(exc, msg) ==
    [exc |-> exc, msg |-> msg, calls |-> <<>>, nodes |-> nodes, ops |-> ops, log |-> <<>>,
     call |-> call]

ResultBody(r, what, data) == [kind |-> "result", req |-> r, op |-> what, data |-> data]

\* a payload has run: its result or its exception becomes the calls of
\* _store_result that follow; an exception no clause matches leaves the script
Payload(out) ==
    /\ mpc = "payload"
    /\ opRan' = [opRan EXCEPT ![cur] = TRUE]
    /\ raised' = [raised EXCEPT ![cur] = out.exc]
    /\ nodes' = out.nodes
    /\ ops' = out.ops
    /\ call' = out.call
    /\ effects' = effects \o out.log
    /\ LET caught == out.exc = "" \/ ExceptException(out.exc)
           calls == IF ~caught THEN <<>>
                    ELSE IF out.exc = "" THEN out.calls ELSE OnException(out.msg)
       IN /\ escaped' = (escaped \/ ~caught)
          /\ s_calls' = calls
          /\ mpc' = IF calls = <<>> THEN "end" ELSE "store_get"
    /\ UNCHANGED <<moduleLoaded, queue, cur, s_entry, childOrder, globalVars>>
    /\ UNCHANGED httpVars
    /\ UNCHANGED <<opPhase, storeCalls, signals, discarded, execThread,
                   submitOrder, startOrder>>

\* ------------------------------------------------------------------------
\* The node graph under /project1 as the payloads see it.  A graph value g
\* maps each valid operator path to a record:
\*   type, family  the operator class (OPType) and its family
\*   X, Y          nodeX and nodeY
\*   inputs        the operator wired to each input connector (<<>>: none),
\*                 connector i of the code is inputs[i + 1]
\*   serial        position in the order of creation
\*   placed, tries (observation) how _run_create chose the position:
\*                 "explicit", "aligned", "grid", or "host" when the program
\*                 never set it; and the number of nudges of the retry loop
\* ------------------------------------------------------------------------
\* _run_create, line 700: spacing_x, spacing_y = 220, 160
spacing_x == 220
spacing_y == 160
\* _run_create, line 749: cols = 6
cols == 6
\* variant: the retry loops go on for twice as many nudges
MaxTries_Doubled == 50 + 50

\* _run_create, lines 739 and 752: "... and tries < 50"
MaxTries == 50

\* _run_create, line 701: fam_offsets
fam_offsets(fam) ==
    CASE fam = "TOP" -> 0
      [] fam = "CHOP" -> -300
      [] fam = "SOP" -> -600
      [] fam = "MAT" -> -900
      [] fam = "COMP" -> -1200
      [] fam = "DAT" -> -1500
      [] OTHER -> 0

NoType == [cls |-> "", family |-> "", base |-> ""]

\* _run_create, lines 655-692: the class a type label resolves to
\* (_resolve_type, then comp_type_map) and the base of the generated name
\* (line 692: the key with 'comp', 'sop', 'top', 'dat' and 'mat' removed, so
\* 'composite' becomes 'osite')
TypeOf(label) ==
    CASE label = Label("circle") -> [cls |-> "circleTOP", family |-> "TOP", base |-> "circle"]
      [] label = Label("composite") -> [cls |-> "compositeTOP", family |-> "TOP", base |-> "osite"]
      [] label = Label("level") -> [cls |-> "levelTOP", family |-> "TOP", base |-> "level"]
      [] label = Label("lfo") -> [cls |-> "lfoCHOP", family |-> "CHOP", base |-> "lfo"]
      [] OTHER -> NoType

\* _ensure_min_inputs_op, lines 558-572: required inputs by family and type
RequiredInputs(cls) ==
    CASE cls = "compositeTOP" -> 2
      [] cls = "levelTOP" -> 1
      [] OTHER -> 0

\* _get_op_family: op.family
GetOpFamily(g, p) == g[p].family

MaxOf(S) == CHOOSE m \in S : \A n \in S : n <= m

\* parent_op.create(cls, name): the host adds a valid child; it has no
\* inputs and sits where the host puts new operators
HostCreate(g, path, cls, fam, hostXY) ==
    [p \in DOMAIN g \cup {path} |->
        IF p = path
        THEN NewOp(cls, fam, hostXY[1], hostXY[2],
                   MaxOf({g[q].serial : q \in DOMAIN g} \cup {0}) + 1, "host", 0)
        ELSE g[p]]

\* _run_create, lines 693-695, and _unique_child_name: the first index i
\* for which op(parent/base+i) finds nothing
UniqueIndexIn(g, base) ==
    CHOOSE i \in 1 .. (Cardinality(DOMAIN g) + 1) :
        /\ ChildPath(base, i) \notin DOMAIN g
        /\ \A j \in 1 .. (i - 1) : ChildPath(base, j) \in DOMAIN g

UniqueIndex(base) == UniqueIndexIn(ops, base)

\* the valid operators of g, oldest first
RECURSIVE BySerial(_, _)
BySerial(S, g) ==
    IF S = {} THEN <<>>
    ELSE LET p == CHOOSE q \in S : \A u \in S : g[q].serial <= g[u].serial
         IN <<p>> \o BySerial(S \ {p}, g)

Reverse(seq) == [i \in 1 .. Len(seq) |-> seq[Len(seq) + 1 - i]]

\* parent_op.children: the valid children in the order the host lists them;
\* the source fixes no order, the host lists them oldest first or newest
\* first
Children(g) ==
    IF childOrder = "oldest_first" THEN BySerial(DOMAIN g, g)
    ELSE Reverse(BySerial(DOMAIN g, g))

\* sibs.sort(key=lambda x: getattr(x, 'nodeX', 0)): Python's sort is stable,
\* elements with equal nodeX keep the order of the list
RECURSIVE SortByNodeX(_, _)
SortByNodeX(seq, g) ==
    IF seq = <<>> THEN <<>>
    ELSE LET rest == SortByNodeX(SubSeq(seq, 1, Len(seq) - 1), g)
             p == seq[Len(seq)]
             k == Cardinality({i \in DOMAIN rest : g[rest[i]].X <= g[p].X})
         IN SubSeq(rest, 1, k) \o <<p>> \o SubSeq(rest, k + 1, Len(rest))

\* _list_siblings(parent_op, family) without the operator "self"
\* (and _run_create, lines 870-873)
ListSiblings(g, fam, self) ==
    SelectSeq(Children(g), LAMBDA c : c # self /\ GetOpFamily(g, c) = fam)

\* _run_create, lines 725-728: the positions of all valid children
AllOccupied(g) == {<<g[c].X, g[c].Y>> : c \in DOMAIN g}

\* variant: the retry loop of the source-aligned placement gives up after
\* a single nudge
RECURSIVE AlignScan_OneTry(_, _, _, _)
AlignScan_OneTry(x, y, tries, occupied) ==
    IF <<x, y>> \in occupied /\ tries < 1
    THEN AlignScan_OneTry(x + spacing_x, y, tries + 1, occupied)
    ELSE [X |-> x, Y |-> y, tries |-> tries]

\* _run_create, lines 738-741: nudge right while the cell is occupied
RECURSIVE AlignScan(_, _, _, _)
AlignScan(x, y, tries, occupied) ==
    IF <<x, y>> \in occupied /\ tries < MaxTries
    THEN AlignScan(x + spacing_x, y, tries + 1, occupied)
    ELSE [X |-> x, Y |-> y, tries |-> tries]

\* _run_create, lines 750-757: walk the grid while the cell is occupied
RECURSIVE GridScan(_, _, _, _, _)
GridScan(col, row, tries, base_y, occupied) ==
    IF <<col * spacing_x, base_y - row * spacing_y>> \in occupied /\ tries < MaxTries
    THEN IF col + 1 >= cols
         THEN GridScan(0, row + 1, tries + 1, base_y, occupied)
         ELSE GridScan(col + 1, row, tries + 1, base_y, occupied)
    ELSE [X |-> col * spacing_x, Y |-> base_y - row * spacing_y, tries |-> tries]

\* variant: an explicit position is used only when it is truthy, so that a
\* coordinate 0 counts as missing
ExplicitPosition_Truthy(params) ==
    /\ params.nodex # <<>> /\ params.nodey # <<>>
    /\ params.nodex[1] # 0 /\ params.nodey[1] # 0

\* _run_create, line 699: "if node_x is None or node_y is None" is false
ExplicitPosition(params) == params.nodex # <<>> /\ params.nodey # <<>>

\* variant: the occupied cells and the sibling count are taken from a copy
\* of the children made before any creation, not from the parent as it is
\* when the payload runs
Position_Stale(g, params, ty, name) ==
    LET old == [p \in {q \in DOMAIN g : g[q].placed = "host"} |-> g[p]]
        src == params.connect_source
    IN IF ExplicitPosition(params)
       THEN [X |-> params.nodex[1], Y |-> params.nodey[1], tries |-> 0, placed |-> "explicit"]
       ELSE IF src # <<>> /\ src \in DOMAIN g
       THEN LET a == AlignScan(g[src].X + spacing_x, g[src].Y, 0, AllOccupied(old))
            IN [X |-> a.X, Y |-> a.Y, tries |-> a.tries, placed |-> "aligned"]
       ELSE LET a == GridScan(0, 0, 0, fam_offsets(ty.family), AllOccupied(old))
            IN [X |-> a.X, Y |-> a.Y, tries |-> a.tries, placed |-> "grid"]

\* _run_create, lines 697-757: the position of the new node.  name is the
\* path the node is going to have.
Position(g, params, ty, name) ==
    IF ExplicitPosition(params)
    THEN [X |-> params.nodex[1], Y |-> params.nodey[1], tries |-> 0, placed |-> "explicit"]
    ELSE LET base_y == fam_offsets(ty.family)
             src == params.connect_source
         IN IF src # <<>> /\ src \in DOMAIN g
            THEN LET a == AlignScan(g[src].X + spacing_x, g[src].Y, 0, AllOccupied(g))
                 IN [X |-> a.X, Y |-> a.Y, tries |-> a.tries, placed |-> "aligned"]
            ELSE LET fam_count == Len(ListSiblings(g, ty.family, name))
                     a == GridScan(fam_count % cols, fam_count \div cols, 0, base_y,
                                   AllOccupied(g))
                 IN [X |-> a.X, Y |-> a.Y, tries |-> a.tries, placed |-> "grid"]

\* variant: the host wires any two operators, whatever their families
HostAccepts_AnyFamily(g, target, source) == TRUE

\* target_op.setInput(index, source_op): the host wires operators of one
\* family only and raises otherwise
HostAccepts(g, target, source) == GetOpFamily(g, target) = GetOpFamily(g, source)

PutAt(seq, i, v) ==
    [k \in 1 .. (IF Len(seq) > i THEN Len(seq) ELSE i) |->
        IF k = i THEN v ELSE IF k <= Len(seq) THEN seq[k] ELSE <<>>]

\* target_op.inputConnectors: the input connectors the host gives an
\* operator, two on a composite, one on the others
HostConnectors(cls) == IF RequiredInputs(cls) > 1 THEN RequiredInputs(cls) ELSE 1

\* conns[index], line 370: Python counts a negative index from the end of
\* the sequence
ConnectorAt(cls, index) == IF index < 0 THEN HostConnectors(cls) + index ELSE index

\* str.isdigit() on one character, and its value
DigitValue(c) ==
    CASE c = "0" -> <<0>> [] c = "1" -> <<1>> [] c = "2" -> <<2>> [] c = "3" -> <<3>>
      [] c = "4" -> <<4>> [] c = "5" -> <<5>> [] c = "6" -> <<6>> [] c = "7" -> <<7>>
      [] c = "8" -> <<8>> [] c = "9" -> <<9>> [] OTHER -> <<>>

\* str.isdigit(): not empty, digits only
IsDigit(s) == s # <<>> /\ \A k \in DOMAIN s : DigitValue(s[k]) # <<>>

\* int(s) of a string of digits
RECURSIVE IntOf(_)
IntOf(s) ==
    IF s = <<>> THEN 0 ELSE IntOf(SubSeq(s, 1, Len(s) - 1)) * 10 + DigitValue(s[Len(s)])[1]

\* variant: the index is never below 0
SlotIndex_Clamped(connect_parameter) ==
    LET cp == LowerStr(StripStr(connect_parameter))
    IN IF StartsWith(cp, <<"i", "n", "p", "u", "t">>) /\ IsDigit(SubSeq(cp, 6, Len(cp)))
       THEN IF IntOf(SubSeq(cp, 6, Len(cp))) = 0 THEN <<0>>
            ELSE <<IntOf(SubSeq(cp, 6, Len(cp))) - 1>>
       ELSE None

\* _run_create, lines 848-852: idx, None when connect_parameter is not of
\* the form input<N>
SlotIndex(connect_parameter) ==
    LET cp == LowerStr(StripStr(connect_parameter))
    IN IF StartsWith(cp, <<"i", "n", "p", "u", "t">>) /\ IsDigit(SubSeq(cp, 6, Len(cp)))
       THEN <<IntOf(SubSeq(cp, 6, Len(cp))) - 1>>
       ELSE None

\* getattr(new_op.par, connect_parameter, None), line 857: the name of the
\* parameter, None when the operator has none of that name
ParNamed(connect_parameter) ==
    IF connect_parameter = <<"L", "a", "b", "e", "l">> THEN <<"Label">> ELSE None

\* _connect_input(target_op, index, source_op): True when the host made the
\* connection; an exception of the host is swallowed and False returned
ConnectInput(g, target, index, source) ==
    IF HostAccepts(g, target, source)
    THEN [g EXCEPT ![target].inputs = PutAt(@, ConnectorAt(g[target].type, index) + 1, source)]
    ELSE g

\* variant: no connector counts as wired
Connected_Never(g, p, i) == FALSE

\* "len(ins) > i and ins[i]": connector i of p is wired
Connected(g, p, i) == Len(g[p].inputs) > i /\ g[p].inputs[i + 1] # <<>>

\* the connectors of p that are wired
ConnectedSlots(g, p) == {i \in 0 .. (Len(g[p].inputs) - 1) : Connected(g, p, i)}

\* _create_fallback_source: a constant of the family, named mcp_const<i>;
\* the position of the new operator is left to the host
CreateFallbackSource(g, family, hostXY) ==
    IF family \in {"TOP", "CHOP"}
    THEN LET path == ChildPath("mcp_const", UniqueIndexIn(g, "mcp_const"))
             cls == IF family = "TOP" THEN "constantTOP" ELSE "constantCHOP"
         IN [g |-> HostCreate(g, path, cls, family, hostXY), path |-> path]
    ELSE [g |-> g, path |-> <<>>]

\* variant: a candidate is dropped from the list once it feeds a connector
\* of the new operator
Candidates_Unused(g, new, prefer) ==
    LET pref == SelectSeq(prefer, LAMBDA c : c \in DOMAIN g /\ c # new)
        sibs == Reverse(SortByNodeX(ListSiblings(g, GetOpFamily(g, new), new), g))
        used == {g[new].inputs[k] : k \in DOMAIN g[new].inputs}
    IN SelectSeq(pref \o SelectSeq(sibs, LAMBDA c : \A k \in DOMAIN pref : pref[k] # c),
                 LAMBDA c : c \notin used)

\* _ensure_min_inputs_op, lines 592-615: the preferred paths that resolve,
\* then the siblings of the family from the rightmost to the leftmost
Candidates(g, new, prefer) ==
    LET pref == SelectSeq(prefer, LAMBDA c : c \in DOMAIN g /\ c # new)
        sibs == Reverse(SortByNodeX(ListSiblings(g, GetOpFamily(g, new), new), g))
    IN pref \o SelectSeq(sibs, LAMBDA c : \A k \in DOMAIN pref : pref[k] # c)

\* _ensure_min_inputs_op, lines 617-627: wire each required connector that
\* is not wired yet to the next candidate, or to a new fallback source
RECURSIVE FillInputs(_, _, _, _, _, _, _)
FillInputs(g, new, i, required, cands, hostXY, made) ==
    IF i >= required THEN [g |-> g, fallbacks |-> made]
    ELSE IF Connected(g, new, i)
    THEN FillInputs(g, new, i + 1, required, cands, hostXY, made)
    ELSE IF cands # <<>>
    THEN FillInputs(ConnectInput(g, new, i, Head(cands)), new, i + 1, required,
                    Tail(cands), hostXY, made)
    ELSE LET fb == CreateFallbackSource(g, GetOpFamily(g, new), hostXY)
         IN IF fb.path = <<>>
            THEN FillInputs(g, new, i + 1, required, cands, hostXY, made)
            ELSE FillInputs(ConnectInput(fb.g, new, i, fb.path), new, i + 1, required,
                            cands, hostXY, made \cup {fb.path})

\* _ensure_min_inputs_op(op_obj, parent_op, prefer_paths)
EnsureMinInputs(g, new, prefer, hostXY) ==
    LET required == RequiredInputs(g[new].type)
    IN IF required <= 0 THEN [g |-> g, fallbacks |-> {}]
       ELSE FillInputs(g, new, 0, required, Candidates(g, new, prefer), hostXY, {})

\* variant: without a resolving source the new operator is wired to its
\* rightmost sibling even though connect_source was given
Wire_AutoWhenSourceMissing(g, new, params) ==
    LET src == params.connect_source
        sibs == SortByNodeX(ListSiblings(g, GetOpFamily(g, new), new), g)
    IN IF src # <<>> /\ src \in DOMAIN g
       THEN IF HostAccepts(g, new, src)
            THEN [g |-> ConnectInput(g, new, 0, src),
                  connections |-> << [src |-> src, slot |-> 0, how |-> "explicit"] >>]
            ELSE [g |-> g, connections |-> <<>>]
       ELSE IF sibs # <<>> /\ HostAccepts(g, new, sibs[Len(sibs)])
       THEN [g |-> ConnectInput(g, new, 0, sibs[Len(sibs)]),
             connections |-> << [src |-> sibs[Len(sibs)], slot |-> 0, how |-> "auto"] >>]
       ELSE [g |-> g, connections |-> <<>>]

\* _run_create, lines 843-878: the explicit source when one is given, at
\* the index of connect_parameter, through the parameter it names, or at
\* input 0; else, with auto_connect, the sibling of the family that the sort
\* by nodeX puts last
Wire(g, new, params) ==
    LET src == params.connect_source
        idx == SlotIndex(params.connect_parameter)
        par == ParNamed(params.connect_parameter)
        sibs == SortByNodeX(ListSiblings(g, GetOpFamily(g, new), new), g)
    IN IF src # <<>>
       THEN IF src \notin DOMAIN g THEN [g |-> g, connections |-> <<>>]
            ELSE IF idx # None
            THEN IF HostAccepts(g, new, src)
                 THEN [g |-> ConnectInput(g, new, idx[1], src),
                       connections |-> << [src |-> src, slot |-> idx[1], how |-> "explicit"] >>]
                 ELSE [g |-> g, connections |-> <<>>]
            ELSE IF par # None
            THEN [g |-> [g EXCEPT ![new].par[par[1]].val = PyVal("op", src)],
                  connections |-> << [src |-> src, slot |-> 0, how |-> "param"] >>]
            ELSE IF HostAccepts(g, new, src)
            THEN [g |-> ConnectInput(g, new, 0, src),
                  connections |-> << [src |-> src, slot |-> 0, how |-> "explicit"] >>]
            ELSE [g |-> g, connections |-> <<>>]
       ELSE IF params.auto_connect /\ sibs # <<>> /\ HostAccepts(g, new, sibs[Len(sibs)])
       THEN [g |-> ConnectInput(g, new, 0, sibs[Len(sibs)]),
             connections |-> << [src |-> sibs[Len(sibs)], slot |-> 0, how |-> "auto"] >>]
       ELSE [g |-> g, connections |-> <<>>]

\* the result dictionary of _run_create, lines 896-902
CreatedBody(r, path, x, y, connections) ==
    [kind |-> "result", req |-> r, op |-> "created", data |-> {path},
     position |-> <<x, y>>, connections |-> connections]

\* what a call of _run_create did: the graph before and after, the path of
\* the new operator, the fallback sources made for it, and the result
CallRecord(r, params, exc, before, after, path, fallbacks, result) ==
    [valid |-> TRUE, req |-> r, params |-> params, exc |-> exc, before |-> before,
     after |-> after, path |-> path, fallbacks |-> fallbacks, result |-> result]

\* the parameters _run_create reads with params.get, with their defaults
CreateParams(label, nodex, nodey, connect_source, auto_connect) ==
    [type |-> label, nodex |-> nodex, nodey |-> nodey,
     connect_source |-> connect_source, auto_connect |-> auto_connect,
     connect_parameter |-> <<>>]

\* the parameters of a creation that names a source and a connect_parameter
CreateParamsTo(label, connect_source, connect_parameter) ==
    [CreateParams(label, <<>>, <<>>, connect_source, TRUE)
        EXCEPT !.connect_parameter = connect_parameter]

\* _run_create up to its result; hostXY is where the host puts an operator
\* whose position the program does not set
create_outcome(r, params, hostXY) ==
    IF params.type = <<>>
    THEN [exc |-> "ValueError", msg |-> "Missing type", calls |-> <<>>, nodes |-> nodes,
          ops |-> ops, log |-> <<>>,
          call |-> CallRecord(r, params, "ValueError", ops, ops, <<>>, {}, NoResult)]
    ELSE IF TypeOf(params.type) = NoType
    THEN [exc |-> "ValueError", msg |-> "Unsupported type", calls |-> <<>>, nodes |-> nodes,
          ops |-> ops, log |-> <<>>,
          call |-> CallRecord(r, params, "ValueError", ops, ops, <<>>, {}, NoResult)]
    ELSE LET ty == TypeOf(params.type)
             path == ChildPath(ty.base, UniqueIndexIn(ops, ty.base))
             pos == Position(ops, params, ty, path)
             g0 == HostCreate(ops, path, ty.cls, ty.family, hostXY)
             g1 == [g0 EXCEPT ![path].X = pos.X, ![path].Y = pos.Y,
                              ![path].placed = pos.placed, ![path].tries = pos.tries]
             w == Wire(g1, path, params)
             prefer == IF params.connect_source # <<>> THEN <<params.connect_source>> ELSE <<>>
             e == EnsureMinInputs(w.g, path, prefer, hostXY)
             result == CreatedBody(r, path, pos.X, pos.Y, w.connections)
         IN [exc |-> "", msg |-> "", calls |-> OnSuccess(result), nodes |-> DOMAIN e.g,
             ops |-> e.g, log |-> << <<r, "create", path>> >>,
             call |-> CallRecord(r, params, "", ops, e.g, path, e.fallbacks, result)]

\* where the host puts an operator it has just created
HostDefaultXY == { <<0, 0>>, <<-220, 160>> }

RunCreate ==
    /\ cur # 0
    /\ method[cur] = "create"
    /\ \E hostXY \in HostDefaultXY :
          Payload(create_outcome(cur, CreateParams(arg[cur], <<>>, <<>>, <<>>, TRUE), hostXY))

\* PROTECTED_PATHS after start_mcp_server: the DAT that launched the server
PROTECTED_PATHS == {ControlDat}

IsPrefix(p, q) == Len(p) < Len(q) /\ SubSeq(q, 1, Len(p)) = p

\* the path "/" of the root component
RootPath == <<>>

\* protected.startswith(norm + '/'): for the root norm + '/' is "//", with
\* which no path starts
StartsWithSlashed(protected, norm) == norm # RootPath /\ IsPrefix(norm, protected)

\* variant: only the ancestors of a protected path are protected, not the
\* path itself
IsProtectedPath_AncestorsOnly(path) ==
    \E protected \in PROTECTED_PATHS : IsPrefix(path, protected)

\* _is_protected_path: the path itself or an ancestor of a protected path
IsProtectedPath(path) ==
    \E protected \in PROTECTED_PATHS :
        path = protected \/ StartsWithSlashed(protected, path)

\* variant: the protected branch stores its result but does not return, so
\* the payload goes on to destroy the operator and stores a second result
delete_outcome_NoReturn(r, path) ==
    IF path = <<>> THEN Raise("ValueError", "Missing path")
    ELSE IF ~OpValid(path) THEN Raise("ValueError", "Invalid component")
    ELSE IF IsProtectedPath(path)
         THEN [exc |-> "", msg |-> "",
               calls |-> OnSuccess(ResultBody(r, "skipped", {path}))
                         \o OnSuccess(ResultBody(r, "deleted", {path})),
               nodes |-> nodes \ {path}, ops |-> [p \in nodes \ {path} |-> ops[p]],
               log |-> << <<r, "delete", path>> >>, call |-> call]
    ELSE Ok(ResultBody(r, "deleted", {path}), nodes \ {path},
            << <<r, "delete", path>> >>)

\* _run_delete
delete_outcome(r, path) ==
    IF path = <<>> THEN Raise("ValueError", "Missing path")
    ELSE IF ~OpValid(path) THEN Raise("ValueError", "Invalid component")
    ELSE IF IsProtectedPath(path)
         THEN Ok(ResultBody(r, "skipped", {path}), nodes, <<>>)
    ELSE Ok(ResultBody(r, "deleted", {path}), nodes \ {path},
            << <<r, "delete", path>> >>)

RunDelete ==
    /\ cur # 0
    /\ method[cur] = "delete"
    /\ Payload(delete_outcome(cur, arg[cur]))

\* _run_list: the valid children of the target
list_outcome(r, path) ==
    IF path # ParentPath THEN Raise("ValueError", "Invalid path")
    ELSE Ok(ResultBody(r, "children", nodes), nodes, <<>>)

RunList ==
    /\ cur # 0
    /\ method[cur] = "list"
    /\ Payload(list_outcome(cur, arg[cur]))

\* _run_execute: exec(code); "assert False" raises AssertionError, whose
\* str() is the empty string
execute_outcome(r, code) ==
    IF code = <<>> THEN Raise("ValueError", "Missing code")
    ELSE IF code = Label("assert False") THEN Raise("AssertionError", "")
    ELSE Ok(ResultBody(r, "executed", {}), nodes, <<>>)

RunExecute ==
    /\ cur # 0
    /\ method[cur] = "execute_python"
    /\ Payload(execute_outcome(cur, arg[cur]))

\* variant: when req_id is not registered, fall back to some registered entry
LookupEntry_AnyPending(rid) ==
    IF rid \in pending_results THEN rid
    ELSE IF pending_results # {} THEN CHOOSE q \in pending_results : TRUE
    ELSE 0

\* variant: the entry object is used without the "if entry:" test
LookupEntry_NoTest(rid) == rid

\* _store_result, line 45: entry = _pending_results.get(req_id)
\* (0 stands for None)
LookupEntry(rid) == IF rid \in pending_results THEN rid ELSE 0

\* where the main thread goes when a call of _store_result returns
AfterStore == IF Len(s_calls) > 1 THEN "store_get" ELSE "end"

\* _store_result, lines 45-46
StoreResult_get ==
    /\ mpc = "store_get"
    /\ s_entry' = LookupEntry(cur)
    /\ storeCalls' = [storeCalls EXCEPT ![cur] = @ + 1]
    /\ IF LookupEntry(cur) # 0
       THEN /\ mpc' = "store_result"
            /\ UNCHANGED <<s_calls, discarded>>
       ELSE /\ mpc' = AfterStore
            /\ s_calls' = Tail(s_calls)
            /\ discarded' = [discarded EXCEPT ![cur] = @ + 1]
    /\ UNCHANGED <<moduleLoaded, queue, cur, nodes, ops, childOrder, globalVars>>
    /\ UNCHANGED httpVars
    /\ UNCHANGED <<opPhase, opRan, signals, raised, escaped, execThread,
                   submitOrder, startOrder, effects, call>>

\* _store_result, line 47: entry['result'] = result
StoreResult_result ==
    /\ mpc = "store_result"
    /\ entry' = [entry EXCEPT ![s_entry].result = s_calls[1].result,
                              ![s_entry].writer = cur]
    /\ mpc' = "store_error"
    /\ UNCHANGED <<method, arg, pc, pending_results, elapsed, w_entry, w_result,
                   w_error, responses, dat_path>>
    /\ UNCHANGED <<moduleLoaded, queue, cur, s_calls, s_entry, nodes, ops, childOrder, globalVars>>
    /\ UNCHANGED histVars

\* _store_result, line 48: entry['error'] = error
StoreResult_error ==
    /\ mpc = "store_error"
    /\ entry' = [entry EXCEPT ![s_entry].error = s_calls[1].error,
                              ![s_entry].writer = cur]
    /\ mpc' = "store_set"
    /\ UNCHANGED <<method, arg, pc, pending_results, elapsed, w_entry, w_result,
                   w_error, responses, dat_path>>
    /\ UNCHANGED <<moduleLoaded, queue, cur, s_calls, s_entry, nodes, ops, childOrder, globalVars>>
    /\ UNCHANGED histVars

\* _store_result, line 49: entry['event'].set()
StoreResult_set ==
    /\ mpc = "store_set"
    /\ entry' = [entry EXCEPT ![s_entry].event = TRUE]
    /\ signals' = [signals EXCEPT ![s_entry] = @ + 1]
    /\ mpc' = AfterStore
    /\ s_calls' = Tail(s_calls)
    /\ UNCHANGED <<method, arg, pc, pending_results, elapsed, w_entry, w_result,
                   w_error, responses, dat_path>>
    /\ UNCHANGED <<moduleLoaded, queue, cur, s_entry, nodes, ops, childOrder, globalVars>>
    /\ UNCHANGED <<opPhase, opRan, storeCalls, discarded, raised, escaped,
                   execThread, submitOrder, startOrder, effects, call>>

\* the script has run to its end; the main thread is free again
MainEnd ==
    /\ mpc = "end"
    /\ opPhase' = [opPhase EXCEPT ![cur] = "finished"]
    /\ execThread' = [execThread EXCEPT ![cur] = IF opRan[cur] THEN "main" ELSE @]
    /\ mpc' = "idle"
    /\ cur' = 0
    /\ s_entry' = 0
    /\ s_calls' = <<>>
    /\ UNCHANGED <<moduleLoaded, queue, nodes, ops, childOrder, globalVars>>
    /\ UNCHANGED httpVars
    /\ UNCHANGED <<opRan, storeCalls, signals, discarded, raised, escaped, submitOrder,
                   startOrder, effects, call>>

\* ------------------------------------------------------------------------
\* Specifications
\* ------------------------------------------------------------------------
HttpStep(r) ==
    \/ do_POST(r)
    \/ HandleMcp(r)
    \/ HandleTypesJson(r)
    \/ Tool_register(r)
    \/ Tool_run(r)
    \/ WaitForResult_get(r)
    \/ WaitForResult_wait(r)
    \/ WaitForResult_read_result(r)
    \/ WaitForResult_read_error(r)
    \/ WaitForResult_pop(r)
    \/ Tool_return(r)

MainStep ==
    \/ Frame
    \/ MainBegin
    \/ Dispatch
    \/ RunCreate
    \/ RunDelete
    \/ RunList
    \/ RunExecute
    \/ StoreResult_get
    \/ StoreResult_result
    \/ StoreResult_error
    \/ StoreResult_set
    \/ MainEnd

Next ==
    \/ \E r \in Requests : HttpStep(r)
    \/ Tick
    \/ MainStep

Spec == Init /\ [][Next]_vars

\* The handler threads are scheduled by the operating system and wall-clock
\* time passes; nothing is assumed about the main thread, which may be held
\* up for any length of time.
LiveSpec ==
    /\ Spec
    /\ WF_vars(Tick)
    /\ \A r \in Requests : WF_vars(HttpStep(r))

\* ------------------------------------------------------------------------
\* The payload _run_create on its own: called on the main thread with
\* req_id=None (its default), it changes the graph and stores no result
\* ------------------------------------------------------------------------
\* number of calls of _run_create with freely chosen parameters
MaxCreates == 3
\* number of calls that follow the first one in a chain of creations which
\* all name the first operator as their connect_source
MaxChain == 52

\* parameter sets of _run_create
GraphInputs ==
    { CreateParams(Label("circle"), <<>>, <<>>, <<>>, TRUE),
      CreateParams(Label("circle"), <<0>>, <<0>>, <<>>, TRUE),
      CreateParams(Label("circle"), <<>>, <<>>, GonePath, TRUE),
      CreateParams(Label("lfo"), <<>>, <<>>, <<>>, TRUE),
      CreateParams(Label("level"), <<>>, <<>>, <<>>, TRUE),
      CreateParams(Label("composite"), <<>>, <<>>, <<>>, TRUE),
      CreateParams(Label("composite"), <<>>, <<>>, ChildPath("lfo", 1), TRUE),
      CreateParams(Label("composite"), <<>>, <<>>, ChildPath("circle", 1), TRUE) }

\* a creation aligned to the first circle
ChainParams == CreateParams(Label("circle"), <<>>, <<>>, ChildPath("circle", 1), TRUE)

\* the parent is empty, or holds the launching DAT at some place
GraphInit ==
    /\ DispatchInit
    /\ GlobalsInit(TdTypesRich)
    /\ moduleLoaded = TRUE
    /\ ops \in { <<>>, LaunchDat(-220, 160), LaunchDat(0, 0) }
    /\ nodes = DOMAIN ops
    /\ childOrder \in {"oldest_first", "newest_first"}

\* one call _run_create(params_json) has run to its end
DirectCreate(params, hostXY, kind) ==
    LET out == create_outcome(0, params, hostXY)
    IN /\ nodes' = out.nodes
       /\ ops' = out.ops
       /\ call' = out.call
       /\ effects' = effects \o [i \in DOMAIN out.log |-> <<0, kind, out.log[i][3]>>]
       /\ UNCHANGED <<moduleLoaded, queue, mpc, cur, s_calls, s_entry, childOrder, globalVars>>
       /\ UNCHANGED httpVars
       /\ UNCHANGED <<opPhase, opRan, storeCalls, signals, discarded, raised, escaped,
                      execThread, submitOrder, startOrder>>

InChain == \E i \in DOMAIN effects : effects[i][2] = "chain"

GraphCreate ==
    /\ ~InChain
    /\ Len(effects) < MaxCreates
    /\ \E params \in GraphInputs, hostXY \in HostDefaultXY :
          DirectCreate(params, hostXY, "create")

\* a client builds a chain: the first operator of the graph is a circle,
\* every later creation names it as its connect_source
GraphChain ==
    /\ Len(effects) >= 1
    /\ effects[1][3] = ChildPath("circle", 1)
    /\ \A i \in DOMAIN effects : i > 1 => effects[i][2] = "chain"
    /\ Len(effects) < 1 + MaxChain
    /\ \E hostXY \in HostDefaultXY : DirectCreate(ChainParams, hostXY, "chain")

GraphNext == GraphCreate \/ GraphChain

GraphSpec == GraphInit /\ [][GraphNext]_vars

\* ------------------------------------------------------------------------
\* _run_create with an explicit source and a connect_parameter
\* ------------------------------------------------------------------------
\* number of calls of _run_create
MaxSlotCreates == 2

\* the values of connect_parameter callers give
SlotParameters ==
    { <<>>,
      <<"i", "n", "p", "u", "t", "0">>,
      <<"i", "n", "p", "u", "t", "1">>,
      <<"i", "n", "p", "u", "t", "2">>,
      <<" ", "I", "n", "p", "u", "t", "1", " ">>,
      <<"i", "n", "p", "u", "t", "x">>,
      <<"L", "a", "b", "e", "l">> }

\* parameter sets of _run_create
SlotInputs ==
    { CreateParamsTo(Label(label), connect_source, connect_parameter) :
        label \in {"level", "composite"},
        connect_source \in {ChildPath("circle", 1), ChildPath("lfo", 1), GonePath},
        connect_parameter \in SlotParameters }

\* the parent holds a circle and an lfo
SlotInit ==
    /\ DispatchInit
    /\ GlobalsInit(TdTypesRich)
    /\ moduleLoaded = TRUE
    /\ ops = [p \in {ChildPath("circle", 1), ChildPath("lfo", 1)} |->
                IF p = ChildPath("circle", 1)
                THEN NewOp("circleTOP", "TOP", 0, 0, 1, "grid", 0)
                ELSE NewOp("lfoCHOP", "CHOP", 0, -300, 2, "grid", 0)]
    /\ nodes = DOMAIN ops
    /\ childOrder \in {"oldest_first", "newest_first"}

\* one call _run_create(params_json) has run to its end
SlotCreate ==
    /\ Len(effects) < MaxSlotCreates
    /\ \E params \in SlotInputs, hostXY \in HostDefaultXY :
          DirectCreate(params, hostXY, "create")

SlotSpec == SlotInit /\ [][SlotCreate]_vars

\* ------------------------------------------------------------------------
\* _run_create in a parent that already holds a grid of one family
\* ------------------------------------------------------------------------
\* number of image operators the parent holds at the start
MaxSiblings == 12
\* number of calls of _run_create
MaxBandCreates == 1

\* the circle that the i-th of a row of grid-placed creations with
\* auto_connect false leaves behind, lines 748-750
GridCircle(i) ==
    NewOp("circleTOP", "TOP", ((i - 1) % cols) * spacing_x,
          fam_offsets("TOP") - ((i - 1) \div cols) * spacing_y, i, "grid", 0)

\* parameter sets of _run_create: no position, no source
BandInputs ==
    { CreateParams(Label(label), <<>>, <<>>, <<>>, auto_connect) :
        label \in {"circle", "level", "lfo"}, auto_connect \in BOOLEAN }

\* the parent holds the circles of k earlier creations
BandInit ==
    /\ DispatchInit
    /\ GlobalsInit(TdTypesRich)
    /\ moduleLoaded = TRUE
    /\ \E k \in 0 .. MaxSiblings :
          ops = [p \in {ChildPath("circle", i) : i \in 1 .. k} |-> GridCircle(p[2][2])]
    /\ nodes = DOMAIN ops
    /\ childOrder \in {"oldest_first", "newest_first"}

\* one call _run_create(params_json) has run to its end
BandCreate ==
    /\ Len(effects) < MaxBandCreates
    /\ \E params \in BandInputs, hostXY \in HostDefaultXY :
          DirectCreate(params, hostXY, "create")

BandSpec == BandInit /\ [][BandCreate]_vars

\* ------------------------------------------------------------------------
\* The payload _run_set on its own (req_id=None)
\* ------------------------------------------------------------------------
\* the JSON strings a client sends as 'value'
SetStrings ==
    {"true", "On", "1", "3.7", " 42 ", "abc",
     "op('/project1/text1')", "op('/project1/gone')"}

\* str.lower()
Lower(str) == IF str = "On" THEN "on" ELSE str

\* str.strip()
Strip(str) == IF str = " 42 " THEN "42" ELSE str

\* float(str): the number in tenths, <<>> when Python raises ValueError;
\* float() skips surrounding blanks
PyFloat(str) ==
    CASE str = "1" -> <<10>>
      [] str = "3.7" -> <<37>>
      [] str = " 42 " -> <<420>>
      [] OTHER -> <<>>

\* s.startswith("op(") and the path s[3:-1] without its quotes
OpArgument(str) ==
    CASE str = "op('/project1/text1')" -> <<ControlDat>>
      [] str = "op('/project1/gone')" -> <<GonePath>>
      [] OTHER -> <<>>

\* variant: an integer parameter is converted with int(value_str), which
\* raises on "3.7"
Coerce_IntDirect(g, tgt_type, value_str) ==
    CASE tgt_type = "bool" -> PyVal("bool", Lower(value_str) \in {"true", "1", "on"})
      [] tgt_type = "int" ->
            IF PyFloat(value_str) # <<>> /\ PyFloat(value_str)[1] % 10 = 0
            THEN PyVal("int", PyFloat(value_str)[1] \div 10)
            ELSE PyVal("str", value_str)
      [] tgt_type = "float" ->
            IF PyFloat(value_str) # <<>> THEN PyVal("float", PyFloat(value_str)[1])
            ELSE PyVal("str", value_str)
      [] OTHER ->
            LET inner == OpArgument(Strip(value_str))
            IN IF inner # <<>> /\ inner[1] \in DOMAIN g THEN PyVal("op", inner[1])
               ELSE PyVal("str", Strip(value_str))

\* _run_set, lines 966-980: the value assigned to par.val
Coerce(g, tgt_type, value_str) ==
    CASE tgt_type = "bool" -> PyVal("bool", Lower(value_str) \in {"true", "1", "on"})
      [] tgt_type = "int" ->
            IF PyFloat(value_str) # <<>> THEN PyVal("int", PyFloat(value_str)[1] \div 10)
            ELSE PyVal("str", value_str)
      [] tgt_type = "float" ->
            IF PyFloat(value_str) # <<>> THEN PyVal("float", PyFloat(value_str)[1])
            ELSE PyVal("str", value_str)
      [] OTHER ->
            LET inner == OpArgument(Strip(value_str))
            IN IF inner # <<>> /\ inner[1] \in DOMAIN g THEN PyVal("op", inner[1])
               ELSE PyVal("str", Strip(value_str))

\* getattr(obj.par, param, None), then the case-insensitive search over
\* dir(obj.par): the actual name of the parameter, <<>> when there is none
FindPar(pars, param) ==
    IF param \in DOMAIN pars THEN <<param>>
    ELSE CASE param = "gain" -> <<"Gain">>
           [] param = "label" -> <<"Label">>
           [] OTHER -> <<>>

\* the parameters _run_set reads with p.get; value <<>> is a missing value
SetParams(path, parameter, value, expression) ==
    [path |-> path, parameter |-> parameter, value |-> value, expression |-> expression]

\* what a call of _run_set did
SetRecord(params, exc, before, after, name) ==
    [valid |-> TRUE, params |-> params, exc |-> exc, before |-> before, after |-> after,
     name |-> name]

\* variant: the missing value is noticed only after the expression has been
\* assigned, so the call reports 'Missing params' with the parameter changed
set_outcome_CheckAfter(g, params) ==
    IF params.path = <<>> \/ params.parameter = ""
    THEN [ops |-> g, call |-> SetRecord(params, "Missing params", g, g, <<>>)]
    ELSE IF params.path \notin DOMAIN g
    THEN [ops |-> g, call |-> SetRecord(params, "Invalid component", g, g, <<>>)]
    ELSE IF FindPar(g[params.path].par, params.parameter) = <<>>
    THEN [ops |-> g, call |-> SetRecord(params, "Parameter not found", g, g, <<>>)]
    ELSE LET name == FindPar(g[params.path].par, params.parameter)[1]
             par == g[params.path].par[name]
             after == IF params.value = <<>>
                      THEN [g EXCEPT ![params.path].par[name].expr = <<"None">>]
                      ELSE IF params.expression
                      THEN [g EXCEPT ![params.path].par[name].expr = params.value]
                      ELSE [g EXCEPT ![params.path].par[name].val =
                                        Coerce(g, par.val.t, params.value[1])]
         IN [ops |-> after,
             call |-> SetRecord(params, IF params.value = <<>> THEN "Missing params" ELSE "",
                                g, after, <<name>>)]

\* _run_set up to its result: the operators after the call and the record of
\* the call
set_outcome(g, params) ==
    IF params.path = <<>> \/ params.parameter = "" \/ params.value = <<>>
    THEN [ops |-> g, call |-> SetRecord(params, "Missing params", g, g, <<>>)]
    ELSE IF params.path \notin DOMAIN g
    THEN [ops |-> g, call |-> SetRecord(params, "Invalid component", g, g, <<>>)]
    ELSE IF FindPar(g[params.path].par, params.parameter) = <<>>
    THEN [ops |-> g, call |-> SetRecord(params, "Parameter not found", g, g, <<>>)]
    ELSE LET name == FindPar(g[params.path].par, params.parameter)[1]
             par == g[params.path].par[name]
             after == IF params.expression
                      THEN [g EXCEPT ![params.path].par[name].expr = params.value]
                      ELSE [g EXCEPT ![params.path].par[name].val =
                                        Coerce(g, par.val.t, params.value[1])]
         IN [ops |-> after, call |-> SetRecord(params, "", g, after, <<name>>)]

\* number of calls of _run_set
MaxSets == 2

\* parameter sets of _run_set
SetInputs ==
    { SetParams(path, parameter, value, expression) :
        path \in {ControlDat, GonePath},
        parameter \in {"Toggle", "Count", "Gain", "gain", "Label", "nosuch"},
        value \in {<<>>} \cup {<<v>> : v \in SetStrings},
        expression \in BOOLEAN }

\* the parent holds the launching DAT, with its parameters as the host made
\* them
SetInit ==
    /\ DispatchInit
    /\ GlobalsInit(TdTypesRich)
    /\ moduleLoaded = TRUE
    /\ ops = LaunchDat(0, 0)
    /\ nodes = DOMAIN ops
    /\ childOrder = "oldest_first"

\* one call _run_set(params_json) has run to its end
DirectSet ==
    /\ Len(effects) < MaxSets
    /\ \E params \in SetInputs :
          LET out == set_outcome(ops, params)
          IN /\ ops' = out.ops
             /\ call' = out.call
             /\ effects' = Append(effects, <<0, "set", params.path>>)
    /\ UNCHANGED <<moduleLoaded, queue, mpc, cur, s_calls, s_entry, childOrder, nodes,
                   globalVars>>
    /\ UNCHANGED httpVars
    /\ UNCHANGED <<opPhase, opRan, storeCalls, signals, discarded, raised, escaped,
                   execThread, submitOrder, startOrder>>

SetSpec == SetInit /\ [][DirectSet]_vars

\* ------------------------------------------------------------------------
\* The three mutating payloads called one after another on one parent
\* ------------------------------------------------------------------------
\* number of calls of the payloads
MaxFrameCalls == 2

\* parameter sets of _run_create: a registered type, an unknown one, none
FrameCreateInputs ==
    { CreateParams(Label("circle"), <<>>, <<>>, <<>>, TRUE),
      CreateParams(Label("circle"), <<>>, <<>>, GonePath, TRUE),
      CreateParams(Label("nosuch"), <<>>, <<>>, <<>>, TRUE),
      CreateParams(<<>>, <<>>, <<>>, <<>>, TRUE) }

\* paths given to _run_delete: none, a missing operator, the protected DAT,
\* the first circle
FrameDeleteInputs == { <<>>, GonePath, ControlDat, ChildPath("circle", 1) }

\* parameter sets of _run_set
FrameSetInputs ==
    { SetParams(path, parameter, value, expression) :
        path \in {<<>>, ControlDat, GonePath, ChildPath("circle", 1)},
        parameter \in {"Count", "gain", "nosuch"},
        value \in {<<>>, <<"3.7">>, <<"abc">>},
        expression \in BOOLEAN }

\* what a call of _run_delete did
DeleteRecord(path, exc, before, after) ==
    [valid |-> TRUE, fn |-> "delete", params |-> path, exc |-> exc, before |-> before,
     after |-> after]

\* the parent holds the launching DAT
FrameInit ==
    /\ DispatchInit
    /\ GlobalsInit(TdTypesRich)
    /\ moduleLoaded = TRUE
    /\ ops = LaunchDat(0, 0)
    /\ nodes = DOMAIN ops
    /\ childOrder \in {"oldest_first", "newest_first"}

FrameStep ==
    /\ Len(effects) < MaxFrameCalls
    /\ UNCHANGED <<moduleLoaded, queue, mpc, cur, s_calls, s_entry, childOrder, globalVars>>
    /\ UNCHANGED httpVars
    /\ UNCHANGED <<opPhase, opRan, storeCalls, signals, discarded, raised, escaped,
                   execThread, submitOrder, startOrder>>

\* one call _run_create(params_json) has run to its end
FrameCreate ==
    /\ FrameStep
    /\ \E params \in FrameCreateInputs, hostXY \in HostDefaultXY :
          LET out == create_outcome(0, params, hostXY)
          IN /\ nodes' = out.nodes
             /\ ops' = out.ops
             /\ call' = out.call
             /\ effects' = Append(effects, <<0, "create", params.type>>)

\* one call _run_delete(params_json) has run to its end
FrameDelete ==
    /\ FrameStep
    /\ \E path \in FrameDeleteInputs :
          LET out == delete_outcome(0, path)
          IN /\ nodes' = out.nodes
             /\ ops' = out.ops
             /\ call' = DeleteRecord(path, out.exc, ops, out.ops)
             /\ effects' = Append(effects, <<0, "delete", path>>)

\* one call _run_set(params_json) has run to its end
FrameSet ==
    /\ FrameStep
    /\ \E params \in FrameSetInputs :
          LET out == set_outcome(ops, params)
          IN /\ ops' = out.ops
             /\ nodes' = nodes
             /\ call' = out.call
             /\ effects' = Append(effects, <<0, "set", params.path>>)

FrameNext == FrameCreate \/ FrameDelete \/ FrameSet

FrameSpec == FrameInit /\ [][FrameNext]_vars

\* ------------------------------------------------------------------------
\* The payloads _run_create and _run_delete of td_mcp_server.py on their own
\* ------------------------------------------------------------------------
\* td_mcp_server.py line 156: the distance between two cells
grid_size == 300
\* td_mcp_server.py line 157: the number of columns of the grid
grid_cols == 4

\* number of calls of the two payloads
MaxCountCalls == 4

\* comp_type_map.get(comp_type_key), lines 113-127: the class and its family,
\* <<>> for a key the map does not hold and td does not name
comp_type_of(label) ==
    CASE label = "circle" -> <<"circleTOP", "TOP">>
      [] label = "lfo" -> <<"lfoCHOP", "CHOP">>
      [] OTHER -> <<>>

\* lines 148-163: the position of the new operator; existing_nodes is
\* len(parent_op.children) after the create
CountPosition(existing_nodes) ==
    << ((existing_nodes - 1) % grid_cols) * grid_size,
       ((existing_nodes - 1) \div grid_cols) * grid_size >>

\* what a call of a payload of td_mcp_server.py did
CountRecord(fn, exc, path) == [valid |-> TRUE, fn |-> fn, exc |-> exc, path |-> path]

\* _run_create of td_mcp_server.py with a type and a parent, without name,
\* nodex, nodey and connect_to: the new operator has no inputs, so
\* len(new_op.inputs) > 0 is false and nothing is wired
count_create_outcome(g, label) ==
    IF label = "" THEN [ops |-> g, call |-> CountRecord("create", "Missing type", <<>>)]
    ELSE IF comp_type_of(label) = <<>>
    THEN [ops |-> g, call |-> CountRecord("create", "Unsupported type", <<>>)]
    ELSE LET path == ChildPath(label, UniqueIndexIn(g, label))
             made == HostCreate(g, path, comp_type_of(label)[1], comp_type_of(label)[2],
                                <<0, 0>>)
             xy == CountPosition(Cardinality(DOMAIN made))
             after == [made EXCEPT ![path].X = xy[1], ![path].Y = xy[2],
                                   ![path].placed = "count"]
         IN [ops |-> after, call |-> CountRecord("create", "", path)]

\* _run_delete of td_mcp_server.py: no path is protected
count_delete_outcome(g, path) ==
    IF path = <<>> THEN [ops |-> g, call |-> CountRecord("delete", "Missing path", path)]
    ELSE IF path \notin DOMAIN g
    THEN [ops |-> g, call |-> CountRecord("delete", "Invalid component", path)]
    ELSE [ops |-> [p \in DOMAIN g \ {path} |-> g[p]],
          call |-> CountRecord("delete", "", path)]

\* the types asked for
CountLabels == {"circle", "lfo", "nosuch", ""}

\* the paths given to _run_delete
CountPaths == {<<>>, GonePath, ChildPath("circle", 1), ChildPath("circle", 2),
               ChildPath("lfo", 1)}

\* the parent is empty
CountInit ==
    /\ DispatchInit
    /\ GlobalsInit(TdTypesRich)
    /\ moduleLoaded = TRUE
    /\ ops = <<>>
    /\ nodes = DOMAIN ops
    /\ childOrder \in {"oldest_first", "newest_first"}

CountStep(out, kind) ==
    /\ Len(effects) < MaxCountCalls
    /\ ops' = out.ops
    /\ nodes' = DOMAIN out.ops
    /\ call' = out.call
    /\ effects' = Append(effects, <<0, kind, out.call.path>>)
    /\ UNCHANGED <<moduleLoaded, queue, mpc, cur, s_calls, s_entry, childOrder, globalVars>>
    /\ UNCHANGED httpVars
    /\ UNCHANGED <<opPhase, opRan, storeCalls, signals, discarded, raised, escaped,
                   execThread, submitOrder, startOrder>>

\* one call _run_create(params_json) of td_mcp_server.py has run to its end
CountCreate == \E label \in CountLabels : CountStep(count_create_outcome(ops, label), "create")

\* one call _run_delete(params_json) of td_mcp_server.py has run to its end
CountDelete == \E path \in CountPaths : CountStep(count_delete_outcome(ops, path), "delete")

CountNext == CountCreate \/ CountDelete

CountSpec == CountInit /\ [][CountNext]_vars

\* ------------------------------------------------------------------------
\* _resolve_type on its own
\* ------------------------------------------------------------------------
\* number of calls of _resolve_type
MaxResolves == 2

\* the module has been imported in a host with few types or with more
ResolveInit ==
    /\ DispatchInit
    /\ \E names \in {TdTypesPlain, TdTypesRich} : GlobalsInit(names)
    /\ moduleLoaded = TRUE
    /\ ops = LaunchDat(0, 0)
    /\ nodes = DOMAIN ops
    /\ childOrder = "oldest_first"

\* what a call of _resolve_type was given and what it returned
ResolveRecord(label, family_hint, result) ==
    [valid |-> TRUE, label |-> label, family_hint |-> family_hint, result |-> result]

\* variant: a class that has been returned is taken out of the index
ResolveCall_Consuming ==
    /\ Len(effects) < MaxResolves
    /\ \E label \in ResolveLabels, family_hint \in ResolveHints :
          LET result == ResolveType(label, family_hint, OP_TYPES_BY_FAMILY, OP_TYPES_NORMALIZED)
          IN /\ call' = ResolveRecord(label, family_hint, result)
             /\ effects' = Append(effects, <<0, "resolve", call'>>)
             /\ OP_TYPES_NORMALIZED' =
                   [b \in DOMAIN OP_TYPES_NORMALIZED |->
                       SelectSeq(OP_TYPES_NORMALIZED[b], LAMBDA c : c.name # result)]
    /\ UNCHANGED <<moduleLoaded, queue, mpc, cur, s_calls, s_entry, childOrder, nodes, ops,
                   OP_TYPES_BY_FAMILY, connection_history>>
    /\ UNCHANGED httpVars
    /\ UNCHANGED <<opPhase, opRan, storeCalls, signals, discarded, raised, escaped,
                   execThread, submitOrder, startOrder>>

\* one call _resolve_type(label, family_hint) has returned
ResolveCall ==
    /\ Len(effects) < MaxResolves
    /\ \E label \in ResolveLabels, family_hint \in ResolveHints :
          LET result == ResolveType(label, family_hint, OP_TYPES_BY_FAMILY, OP_TYPES_NORMALIZED)
          IN /\ call' = ResolveRecord(label, family_hint, result)
             /\ effects' = Append(effects, <<0, "resolve", call'>>)
    /\ UNCHANGED <<moduleLoaded, queue, mpc, cur, s_calls, s_entry, childOrder, nodes, ops,
                   globalVars>>
    /\ UNCHANGED httpVars
    /\ UNCHANGED <<opPhase, opRan, storeCalls, signals, discarded, raised, escaped,
                   execThread, submitOrder, startOrder>>

ResolveSpec == ResolveInit /\ [][ResolveCall]_vars

\* ------------------------------------------------------------------------
\* The payloads _run_auto_connect of the two server modules on their own
\* ------------------------------------------------------------------------
\* deque(maxlen=100), td_mcp_server_auso_v2.py line 68
maxlen == 100

\* deque.append on a deque with maxlen: a full deque drops its oldest record
DequeAppend(log, rec) == IF Len(log) >= maxlen THEN Append(Tail(log), rec) ELSE Append(log, rec)

\* list.append, td_mcp_server.py line 497
ListAppend(log, rec) == Append(log, rec)

\* the record appended to connection_history; stamp stands for time.time()
ConnectionInfo(source, target, stamp) == [source |-> source, target |-> target, stamp |-> stamp]

\* the parameters _run_auto_connect reads
ConnectParams(source, target, connection_type) ==
    [source |-> source, target |-> target, connection_type |-> connection_type]

\* td_mcp_server_auso_v2.py, _run_auto_connect: the operators and the log
\* after the call
auto_connect_v2(g, log, params, stamp) ==
    IF params.source = <<>> \/ params.target = <<>> THEN [ops |-> g, log |-> log, exc |-> "Missing"]
    ELSE IF params.source \notin DOMAIN g THEN [ops |-> g, log |-> log, exc |-> "Invalid source"]
    ELSE IF params.target \notin DOMAIN g THEN [ops |-> g, log |-> log, exc |-> "Invalid target"]
    ELSE IF HostAccepts(g, params.target, params.source)
    THEN [ops |-> ConnectInput(g, params.target, 0, params.source),
          log |-> DequeAppend(log, ConnectionInfo(params.source, params.target, stamp)),
          exc |-> ""]
    ELSE [ops |-> g, log |-> log, exc |-> ""]

\* td_mcp_server.py, _run_auto_connect, lines 421-443 and 469-473: a
\* connection is made when source and target are of the same family
\* (TOP, CHOP, SOP, DAT), or the type is "input", and the target has an
\* input already
auto_connect_v1(g, log, params, stamp) ==
    IF params.source = <<>> \/ params.target = <<>> THEN [ops |-> g, log |-> log, exc |-> "Missing"]
    ELSE IF params.source \notin DOMAIN g THEN [ops |-> g, log |-> log, exc |-> "Invalid source"]
    ELSE IF params.target \notin DOMAIN g THEN [ops |-> g, log |-> log, exc |-> "Invalid target"]
    ELSE IF /\ \/ params.connection_type = "input"
               \/ /\ params.connection_type = "auto"
                  /\ g[params.source].family = g[params.target].family
                  /\ g[params.source].family \in {"TOP", "CHOP", "SOP", "DAT"}
            /\ Len(g[params.target].inputs) > 0
    THEN [ops |-> [g EXCEPT ![params.target].inputs[1] = params.source],
          log |-> ListAppend(log, ConnectionInfo(params.source, params.target, stamp)),
          exc |-> ""]
    ELSE [ops |-> g, log |-> log, exc |-> ""]

\* number of calls of _run_auto_connect with freely chosen parameters
MaxConnects == 2
\* number of calls that follow them, each of which connects circle1 to
\* level1 again
MaxBurst == 101

\* parameter sets of _run_auto_connect
ConnectInputs ==
    { ConnectParams(source, ChildPath("level", 1), connection_type) :
        source \in {ChildPath("circle", 1), ChildPath("lfo", 1), GonePath},
        connection_type \in {"auto", "input"} }

\* the parent holds a circle, an lfo and a level fed by the circle
HistoryInit ==
    /\ DispatchInit
    /\ GlobalsInit(TdTypesRich)
    /\ moduleLoaded = TRUE
    /\ ops = [p \in {ChildPath("circle", 1), ChildPath("lfo", 1), ChildPath("level", 1)} |->
                CASE p = ChildPath("circle", 1) -> NewOp("circleTOP", "TOP", 0, 0, 1, "grid", 0)
                  [] p = ChildPath("lfo", 1) -> NewOp("lfoCHOP", "CHOP", 0, -300, 2, "grid", 0)
                  [] OTHER -> [NewOp("levelTOP", "TOP", 220, 0, 3, "grid", 0)
                                 EXCEPT !.inputs = <<ChildPath("circle", 1)>>]]
    /\ nodes = DOMAIN ops
    /\ childOrder = "oldest_first"

\* one call of _run_auto_connect of module m has run to its end
DirectAutoConnect(m, params, kind) ==
    LET out == IF m = "td_mcp_server_auso_v2"
               THEN auto_connect_v2(ops, connection_history[m], params, Len(effects) + 1)
               ELSE auto_connect_v1(ops, connection_history[m], params, Len(effects) + 1)
    IN /\ ops' = out.ops
       /\ connection_history' = [connection_history EXCEPT ![m] = out.log]
       /\ call' = [valid |-> TRUE, module |-> m, params |-> params, exc |-> out.exc,
                   before |-> connection_history[m], after |-> out.log]
       /\ effects' = Append(effects, <<0, kind, m>>)
       /\ UNCHANGED <<moduleLoaded, queue, mpc, cur, s_calls, s_entry, childOrder, nodes,
                      OP_TYPES_BY_FAMILY, OP_TYPES_NORMALIZED>>
       /\ UNCHANGED httpVars
       /\ UNCHANGED <<opPhase, opRan, storeCalls, signals, discarded, raised, escaped,
                      execThread, submitOrder, startOrder>>

\* a call with any of the parameter sets, in either module
HistoryConnect ==
    /\ \A i \in DOMAIN effects : effects[i][2] = "connect"
    /\ Len(effects) < MaxConnects
    /\ \E m \in ServerModules, params \in ConnectInputs : DirectAutoConnect(m, params, "connect")

\* a client connects circle1 to level1 over and over, in one module
HistoryBurst ==
    /\ Cardinality({i \in DOMAIN effects : effects[i][2] = "burst"}) < MaxBurst
    /\ \E m \in ServerModules :
          /\ \A i \in DOMAIN effects : effects[i][2] = "burst" => effects[i][3] = m
          /\ DirectAutoConnect(m, ConnectParams(ChildPath("circle", 1), ChildPath("level", 1),
                                                "auto"), "burst")

HistoryNext == HistoryConnect \/ HistoryBurst

HistorySpec == HistoryInit /\ [][HistoryNext]_vars

\* ------------------------------------------------------------------------
\* The payloads _run_rename and _run_delete on their own, over the whole
\* component tree.  Here an operator is known by an identity that a rename
\* leaves alone; ops maps each valid identity to its name and its parent.
\* ------------------------------------------------------------------------
RootId == 0
ProjectId == 1
\* the DAT that launched the server: its path is in PROTECTED_PATHS
ControlId == 2
CircleId == 3

\* op.path: the names from below the root down to the operator
RECURSIVE PathOf(_, _)
PathOf(g, id) == IF id = RootId THEN RootPath ELSE Append(PathOf(g, g[id].parent), g[id].name)

\* op(path): the valid operators with that path (none or one)
OpAt(g, path) == {id \in DOMAIN g : PathOf(g, id) = path}

\* the operator itself and everything below it
RECURSIVE Below(_, _, _)
Below(g, id, k) ==
    IF k = 0 THEN {id}
    ELSE {id} \cup UNION { Below(g, c, k - 1) : c \in {c \in DOMAIN g : c # RootId /\ g[c].parent = id} }

Subtree(g, id) == Below(g, id, Cardinality(DOMAIN g))

\* the parameters of _run_rename and _run_delete; given is the truth value
\* of the 'path' entry
PathParams(given, path, new_name) == [given |-> given, path |-> path, new_name |-> new_name]

\* the record of one call
TreeRecord(fn, params, target, exc, skipped, before, after) ==
    [valid |-> TRUE, fn |-> fn, params |-> params, target |-> target, exc |-> exc,
     skipped |-> skipped, before |-> before, after |-> after]

\* _run_rename: node.name = str(new_name)
rename_outcome(g, params) ==
    IF ~params.given \/ params.new_name = None
    THEN [ops |-> g, call |-> TreeRecord("rename", params, {}, "Missing path or new_name",
                                          FALSE, g, g)]
    ELSE IF OpAt(g, params.path) = {}
    THEN [ops |-> g, call |-> TreeRecord("rename", params, {}, "Invalid component",
                                          FALSE, g, g)]
    ELSE LET node == CHOOSE id \in OpAt(g, params.path) : TRUE
             after == [g EXCEPT ![node].name = params.new_name]
         IN [ops |-> after, call |-> TreeRecord("rename", params, {node}, "", FALSE, g, after)]

\* what obj.destroy() does: the operator goes with everything below it; the
\* host either destroys the root like any component or raises an error
HostDestroys(g, obj) ==
    LET gone == [id \in DOMAIN g \ Subtree(g, obj) |-> g[id]]
    IN IF obj = RootId THEN {[exc |-> "", ops |-> gone], [exc |-> "tdError", ops |-> g]}
       ELSE {[exc |-> "", ops |-> gone]}

\* _run_delete over the tree; host is the outcome of obj.destroy()
tree_delete_outcome(g, params, host) ==
    IF ~params.given
    THEN [ops |-> g, call |-> TreeRecord("delete", params, {}, "Missing path", FALSE, g, g)]
    ELSE IF OpAt(g, params.path) = {}
    THEN [ops |-> g, call |-> TreeRecord("delete", params, {}, "Invalid component",
                                          FALSE, g, g)]
    ELSE LET obj == CHOOSE id \in OpAt(g, params.path) : TRUE
         IN IF IsProtectedPath(PathOf(g, obj))
            THEN [ops |-> g, call |-> TreeRecord("delete", params, {obj}, "", TRUE, g, g)]
            ELSE [ops |-> host.ops,
                  call |-> TreeRecord("delete", params, {obj}, host.exc, FALSE, g, host.ops)]

\* number of calls of _run_rename and _run_delete in a behaviour
MaxTreeCalls == 3

\* the paths a client may name: those of the operators as they are now,
\* those they had at the start, and one that never existed
TreePaths(g) ==
    {PathOf(g, id) : id \in DOMAIN g} \cup {ParentPath, ControlDat, ChildPath("circle", 1), GonePath}

\* the component tree at the start: /, /project1, /project1/text1 (the
\* control DAT) and /project1/circle1
TreeInit ==
    /\ DispatchInit
    /\ GlobalsInit(TdTypesRich)
    /\ moduleLoaded = TRUE
    /\ ops = [id \in {RootId, ProjectId, ControlId, CircleId} |->
                CASE id = RootId -> [name |-> <<"/", 0>>, parent |-> RootId]
                  [] id = ProjectId -> [name |-> <<"project", 1>>, parent |-> RootId]
                  [] id = ControlId -> [name |-> <<"text", 1>>, parent |-> ProjectId]
                  [] OTHER -> [name |-> <<"circle", 1>>, parent |-> ProjectId]]
    /\ nodes = DOMAIN ops
    /\ childOrder = "oldest_first"

TreeStep(out, fn) ==
    /\ ops' = out.ops
    /\ nodes' = DOMAIN out.ops
    /\ call' = out.call
    /\ effects' = Append(effects, <<0, fn, out.call.params.path>>)
    /\ UNCHANGED <<moduleLoaded, queue, mpc, cur, s_calls, s_entry, childOrder, globalVars>>
    /\ UNCHANGED httpVars
    /\ UNCHANGED <<opPhase, opRan, storeCalls, signals, discarded, raised, escaped,
                   execThread, submitOrder, startOrder>>

\* one call of _run_rename has run to its end; the new name is one no
\* operator has had
DirectRename ==
    /\ Len(effects) < MaxTreeCalls
    /\ \E path \in TreePaths(ops) \ {RootPath}, given \in BOOLEAN :
          TreeStep(rename_outcome(ops, PathParams(given, path, <<"ctl", Len(effects) + 1>>)),
                   "rename")

\* one call of _run_delete has run to its end
DirectTreeDelete ==
    /\ Len(effects) < MaxTreeCalls
    /\ \E path \in TreePaths(ops), given \in BOOLEAN :
          LET params == PathParams(given, path, None)
              obj == OpAt(ops, path)
          IN \E host \in (IF obj = {} THEN {[exc |-> "", ops |-> ops]}
                          ELSE HostDestroys(ops, CHOOSE id \in obj : TRUE)) :
                TreeStep(tree_delete_outcome(ops, params, host), "delete")

TreeNext == DirectRename \/ DirectTreeDelete

TreeSpec == TreeInit /\ [][TreeNext]_vars

\* ------------------------------------------------------------------------
\* Scored auto-connection: _find_best_connection (bu.py, Master.py) and the
\* strength loop of Master.py's _run_create, on their own
\* ------------------------------------------------------------------------
\* the characters of the names the scoring looks into
Chars(s) ==
    CASE s = "circleTOP" -> <<"c", "i", "r", "c", "l", "e", "T", "O", "P">>
      [] s = "noiseTOP" -> <<"n", "o", "i", "s", "e", "T", "O", "P">>
      [] s = "lfoCHOP" -> <<"l", "f", "o", "C", "H", "O", "P">>
      [] s = "textDAT" -> <<"t", "e", "x", "t", "D", "A", "T">>
      [] s = "circle" -> <<"c", "i", "r", "c", "l", "e">>
      [] s = "noise" -> <<"n", "o", "i", "s", "e">>
      [] s = "lfo" -> <<"l", "f", "o">>
      [] s = "text" -> <<"t", "e", "x", "t">>
      [] OTHER -> <<>>


\* the class parent_op.create is given for a type label, and its family
ScoreClass(label) ==
    CASE label = "circle" -> [cls |-> "circleTOP", family |-> "TOP"]
      [] label = "noise" -> [cls |-> "noiseTOP", family |-> "TOP"]
      [] label = "lfo" -> [cls |-> "lfoCHOP", family |-> "CHOP"]
      [] OTHER -> [cls |-> "textDAT", family |-> "DAT"]

NoPattern == [target_types |-> <<>>, priority |-> <<>>]

\* _find_best_connection: connection_patterns.get(new_type), then the
\* fallback by keyword; 'text' matches no key and no keyword
connection_pattern(new_type) ==
    CASE new_type = "circle" -> [target_types |-> <<<<"T", "O", "P">>>>, priority |-> <<<<"o", "u", "t">>, <<"t", "e", "x", "t">>, <<"n", "o", "i", "s", "e">>, <<"c", "o", "n", "s", "t", "a", "n", "t">>, <<"c", "i", "r", "c", "l", "e">>>>]
      [] new_type = "noise" -> [target_types |-> <<<<"T", "O", "P">>>>, priority |-> <<<<"o", "u", "t">>, <<"t", "e", "x", "t">>, <<"c", "i", "r", "c", "l", "e">>, <<"c", "o", "n", "s", "t", "a", "n", "t">>>>]
      [] new_type = "lfo" -> [target_types |-> <<<<"C", "H", "O", "P">>>>, priority |-> <<<<"o", "u", "t", "c", "h", "o", "p">>, <<"n", "u", "l", "l", "c", "h", "o", "p">>, <<"c", "o", "n", "s", "t", "a", "n", "t", "c", "h", "o", "p">>, <<"n", "o", "i", "s", "e", "c", "h", "o", "p">>>>]
      [] OTHER -> NoPattern


\* "for i, priority_type in enumerate(pattern['priority'])": the score of
\* the first entry found in the lower-cased type of the child
PriorityScore(priority, child_type_lower) ==
    LET hits == {i \in DOMAIN priority : Contains(child_type_lower, priority[i])}
    IN IF hits = {} THEN 0
       ELSE (Len(priority) - ((CHOOSE i \in hits : \A j \in hits : i <= j) - 1)) * 10

\* index of x in a list (list.index, from 0)
IndexOf(seq, x) == (CHOOSE i \in DOMAIN seq : seq[i] = x) - 1

\* _has_available_outputs: every operator of the model has an output
\* connector
HasAvailableOutputs(g, c) == c \in DOMAIN g

\* variant: the bonus grows with the index of the child in the list
RecencyBonus_ByIndex(children, child) == (IndexOf(children, child) + 1) * 5

\* _find_best_connection: "recency_bonus = children.index(child);
\* score += (len(children) - recency_bonus) * 5"
RecencyBonus(children, child) == (Len(children) - IndexOf(children, child)) * 5

\* _find_best_connection: the score of one compatible child
ChildScore(g, children, pattern, child) ==
    PriorityScore(pattern.priority, LowerStr(Chars(g[child].type)))
    + RecencyBonus(children, child)
    + (IF HasAvailableOutputs(g, child) THEN 20 ELSE 0)

\* list.sort(key=score, reverse=True): highest first, equal scores keep
\* the order of the list
RECURSIVE SortByScore(_)
SortByScore(seq) ==
    IF seq = <<>> THEN <<>>
    ELSE LET rest == SortByScore(SubSeq(seq, 1, Len(seq) - 1))
             e == seq[Len(seq)]
             k == Cardinality({i \in DOMAIN rest : rest[i].score >= e.score})
         IN SubSeq(rest, 1, k) \o <<e>> \o SubSeq(rest, k + 1, Len(rest))

\* _find_best_connection(new_op, parent_op, comp_type_str): the scored
\* children, highest first, and the path returned (None: no connection)
find_best_connection(g, new, comp_type_str) ==
    LET children == SelectSeq(Children(g), LAMBDA c : c # new)
        pattern == connection_pattern(comp_type_str)
        compatible == SelectSeq(children, LAMBDA c :
                         \E k \in DOMAIN pattern.target_types :
                            Contains(Chars(g[c].type), pattern.target_types[k]))
        scored == SortByScore([i \in DOMAIN compatible |->
                     [child |-> compatible[i],
                      score |-> ChildScore(g, children, pattern, compatible[i])]])
    IN IF children = <<>> \/ pattern = NoPattern \/ compatible = <<>>
       THEN [scored |-> <<>>, best |-> None]
       ELSE [scored |-> scored, best |-> scored[1].child]


\* _get_connection_strength: type_families, in the order of the dict
type_families ==
    << <<<<"c", "i", "r", "c", "l", "e">>, <<"n", "o", "i", "s", "e">>, <<"c", "o", "n", "s", "t", "a", "n", "t">>, <<"t", "e", "x", "t">>, <<"b", "l", "u", "r">>, <<"l", "e", "v", "e", "l">>, <<"o", "u", "t">>, <<"c", "o", "m", "p", "o", "s", "i", "t", "e">>>>,
       <<<<"s", "p", "h", "e", "r", "e">>, <<"b", "o", "x">>, <<"g", "r", "i", "d">>, <<"t", "r", "a", "n", "s", "f", "o", "r", "m">>, <<"m", "e", "r", "g", "e">>, <<"o", "u", "t", "s", "o", "p">>, <<"n", "u", "l", "l">>, <<"n", "u", "l", "l", "s", "o", "p">>>>,
       <<<<"c", "o", "n", "s", "t", "a", "n", "t", "c", "h", "o", "p">>, <<"n", "o", "i", "s", "e", "c", "h", "o", "p">>, <<"l", "f", "o">>, <<"m", "a", "t", "h">>, <<"f", "i", "l", "t", "e", "r">>, <<"o", "u", "t", "c", "h", "o", "p">>>>,
       <<<<"g", "e", "o", "m", "e", "t", "r", "y">>, <<"c", "a", "m", "e", "r", "a">>, <<"l", "i", "g", "h", "t">>, <<"r", "e", "n", "d", "e", "r">>, <<"b", "a", "s", "e">>, <<"c", "o", "n", "t", "a", "i", "n", "e", "r">>>>,
       <<<<"p", "h", "o", "n", "g">>, <<"p", "b", "r">>, <<"c", "o", "n", "s", "t", "a", "n", "t">>, <<"g", "l", "s", "l">>, <<"t", "e", "x", "t", "u", "r", "e">>, <<"v", "i", "d", "e", "o">>>> >>


\* _get_connection_strength: param_relevance.get(parameter_name, 10)
param_relevance(parameter_name) ==
    CASE parameter_name = "input1" -> 40
      [] parameter_name = "input" -> 35
      [] parameter_name = "source" -> 30
      [] parameter_name \in {"top", "sop", "chop"} -> 25
      [] OTHER -> 10

\* _get_connection_strength(source_op, target_op, parameter_name)
connection_strength(g, source, target, parameter_name) ==
    LET source_type == LowerStr(Chars(g[source].type))
        target_type == LowerStr(Chars(g[target].type))
        children == Children(g)
    IN (IF Contains(target_type, source_type) \/ Contains(source_type, target_type)
        THEN 50 ELSE 0)
       + (IF \E f \in DOMAIN type_families :
                /\ \E t \in DOMAIN type_families[f] : Contains(source_type, type_families[f][t])
                /\ \E t \in DOMAIN type_families[f] : Contains(target_type, type_families[f][t])
          THEN 30 ELSE 0)
       + param_relevance(parameter_name)
       + (Len(children) - IndexOf(children, source)) * 2

\* AUTO_CONNECTION_MODES: connection_threshold of each mode
connection_threshold(mode) ==
    CASE mode = "basic" -> 15
      [] mode = "intelligent" -> 10
      [] mode = "minimal" -> 30
      [] OTHER -> 0

\* hasattr(new_op.par, actual_param) is false for every name tried
NoParam == ""

\* the name and the type of an operator as the debug line prints them
NameAndType(g, c) == [name |-> c[Len(c)], type |-> g[c].type]

\* variant: a strength equal to the threshold is enough
StrongEnough_OrEqual(strength, threshold) == strength >= threshold

\* Master.py, _run_create, line 1053: "if strength > threshold"
StrongEnough(strength, threshold) == strength > threshold

\* Master.py, _run_create, lines 1038-1071: every other child whose strength
\* is above the threshold, strongest first, the source chosen, and the debug
\* line printed when there is none.  actual_param is the first input
\* parameter the host finds on the new operator (NoParam: it has none).
strength_connection(g, new, mode, actual_param) ==
    LET children == SelectSeq(Children(g), LAMBDA c : c # new)
        threshold == connection_threshold(mode)
        strengths == [i \in DOMAIN children |->
                        [child |-> children[i],
                         score |-> connection_strength(g, children[i], new, actual_param)]]
        potential == IF actual_param = NoParam THEN <<>>
                     ELSE SortByScore(SelectSeq(strengths,
                             LAMBDA e : StrongEnough(e.score, threshold)))
        everyone == Children(g)
    IN IF potential # <<>>
       THEN [scored |-> (IF actual_param = NoParam THEN <<>> ELSE strengths),
             best |-> potential[1].child, diagnostic |-> <<>>]
       ELSE [scored |-> (IF actual_param = NoParam THEN <<>> ELSE strengths),
             best |-> None,
             diagnostic |-> [i \in DOMAIN everyone |-> NameAndType(g, everyone[i])]]

\* number of creations in a behaviour of the scoring
MaxScored == 3

ScoreLabels == {"circle", "noise", "lfo", "text"}
ScoreModes == {"basic", "intelligent", "minimal"}
\* the input parameter the host finds on the new operator
ScoreParams == {NoParam, "input1", "top"}

\* the parent is empty
ScoreInit ==
    /\ DispatchInit
    /\ GlobalsInit(TdTypesRich)
    /\ moduleLoaded = TRUE
    /\ ops = <<>>
    /\ nodes = {}
    /\ childOrder \in {"oldest_first", "newest_first"}

\* what the auto-connection of one creation decided
ScoreRecord(how, label, mode, new, before, out) ==
    [valid |-> TRUE, how |-> how, label |-> label, mode |-> mode, new |-> new,
     before |-> before, scored |-> out.scored, best |-> out.best,
     diagnostic |-> out.diagnostic]

ScoreStep(g, rec) ==
    /\ ops' = g
    /\ nodes' = DOMAIN g
    /\ call' = rec
    /\ effects' = Append(effects, <<0, rec.how, rec.new>>)
    /\ UNCHANGED <<moduleLoaded, queue, mpc, cur, s_calls, s_entry, childOrder, globalVars>>
    /\ UNCHANGED httpVars
    /\ UNCHANGED <<opPhase, opRan, storeCalls, signals, discarded, raised, escaped,
                   execThread, submitOrder, startOrder>>

\* a creation whose source is chosen by _find_best_connection
CreateByBest ==
    /\ Len(effects) < MaxScored
    /\ \E label \in ScoreLabels, hostXY \in {<<0, 0>>} :
          LET new == ChildPath(label, UniqueIndexIn(ops, label))
              g == HostCreate(ops, new, ScoreClass(label).cls, ScoreClass(label).family, hostXY)
              out == find_best_connection(g, new, label)
          IN ScoreStep(g, ScoreRecord("best", label, "", new, ops,
                                      [scored |-> out.scored, best |-> out.best,
                                       diagnostic |-> <<>>]))

\* a creation whose source is chosen by the strength loop of Master.py
CreateByStrength ==
    /\ Len(effects) < MaxScored
    /\ \E label \in ScoreLabels, mode \in ScoreModes, actual_param \in ScoreParams :
          LET new == ChildPath(label, UniqueIndexIn(ops, label))
              g == HostCreate(ops, new, ScoreClass(label).cls, ScoreClass(label).family,
                              <<0, 0>>)
          IN ScoreStep(g, ScoreRecord("strength", label, mode, new, ops,
                                      strength_connection(g, new, mode, actual_param)))

ScoreNext == CreateByBest \/ CreateByStrength

ScoreSpec == ScoreInit /\ [][ScoreNext]_vars

\* ------------------------------------------------------------------------
\* The payload _run_ensure_inputs on its own
\* ------------------------------------------------------------------------
\* "sum(1 for inp in node.inputs if inp)"
CountInputs(g, p) == Cardinality(ConnectedSlots(g, p))

\* the parameters of _run_ensure_inputs; min_inputs None: the default 2
EnsureParams(path, min_inputs) == [path |-> path, min_inputs |-> min_inputs]

\* what a call of _run_ensure_inputs did
EnsureRecord(params, exc, before, after, result) ==
    [valid |-> TRUE, fn |-> "ensure", params |-> params, exc |-> exc, before |-> before,
     after |-> after, result |-> result]

\* _run_ensure_inputs: min_inputs is read and converted, and not used again;
\* the inputs are filled by _ensure_min_inputs_op as the type requires
ensure_inputs_outcome(g, params, hostXY) ==
    LET min_inputs == IF params.min_inputs = None THEN 2 ELSE params.min_inputs[1]
    IN IF params.path = <<>>
       THEN [ops |-> g, call |-> EnsureRecord(params, "Missing path", g, g, NoResult)]
       ELSE IF params.path \notin DOMAIN g
       THEN [ops |-> g, call |-> EnsureRecord(params, "Invalid component", g, g, NoResult)]
       ELSE LET e == EnsureMinInputs(g, params.path, <<>>, hostXY)
                before == CountInputs(g, params.path)
                after == CountInputs(e.g, params.path)
            IN [ops |-> e.g,
                call |-> EnsureRecord(params, "", g, e.g,
                            [path |-> params.path, inputs_before |-> before,
                             inputs_after |-> after, inputs_added |-> after - before])]

\* number of creations and of calls of _run_ensure_inputs in a behaviour
MaxEnsureCreates == 1
MaxEnsures == 2

EnsureInputs ==
    { EnsureParams(path, m) :
        path \in {ChildPath("osite", 1), ChildPath("level", 1), GonePath, <<>>},
        m \in {None, <<1>>} }

\* the creations that add siblings to the operators the user has made
EnsureCreateInputs ==
    { CreateParams(Label("circle"), <<>>, <<>>, <<>>, TRUE),
      CreateParams(Label("lfo"), <<>>, <<>>, <<>>, TRUE),
      CreateParams(Label("composite"), <<>>, <<>>, ChildPath("lfo", 1), TRUE) }

\* an operator the user has put at (x, y) in the network editor, unwired
UserOp(base, cls, fam, x, y, serial) ==
    [p \in {ChildPath(base, 1)} |-> NewOp(cls, fam, x, y, serial, "host", 0)]

\* the parent holds operators the user has made and not wired: a level, a
\* composite, or a composite next to an lfo
EnsureInit ==
    /\ DispatchInit
    /\ GlobalsInit(TdTypesRich)
    /\ moduleLoaded = TRUE
    /\ ops \in { UserOp("level", "levelTOP", "TOP", 0, 0, 1),
                 UserOp("osite", "compositeTOP", "TOP", 0, 0, 1),
                 UserOp("osite", "compositeTOP", "TOP", 0, 0, 1)
                    @@ UserOp("lfo", "lfoCHOP", "CHOP", 0, -300, 2) }
    /\ nodes = DOMAIN ops
    /\ childOrder \in {"oldest_first", "newest_first"}

\* one call of _run_create
EnsureCreate ==
    /\ Cardinality({i \in DOMAIN effects : effects[i][2] = "create"}) < MaxEnsureCreates
    /\ \E params \in EnsureCreateInputs, hostXY \in HostDefaultXY :
          DirectCreate(params, hostXY, "create")

\* one call of _run_ensure_inputs has run to its end
DirectEnsure ==
    /\ Cardinality({i \in DOMAIN effects : effects[i][2] = "ensure"}) < MaxEnsures
    /\ \E params \in EnsureInputs, hostXY \in HostDefaultXY :
          LET out == ensure_inputs_outcome(ops, params, hostXY)
          IN /\ ops' = out.ops
             /\ nodes' = DOMAIN out.ops
             /\ call' = out.call
             /\ effects' = Append(effects, <<0, "ensure", params.path,
                                            out.ops # ops /\ out.call.exc = "">>)
             /\ UNCHANGED <<moduleLoaded, queue, mpc, cur, s_calls, s_entry, childOrder,
                            globalVars>>
             /\ UNCHANGED httpVars
             /\ UNCHANGED <<opPhase, opRan, storeCalls, signals, discarded, raised, escaped,
                            execThread, submitOrder, startOrder>>

EnsureNext == EnsureCreate \/ DirectEnsure

EnsureSpec == EnsureInit /\ [][EnsureNext]_vars

\* ------------------------------------------------------------------------
\* Properties
\* ------------------------------------------------------------------------
IsTimeoutBody(b) == b.kind = "error" /\ b.text = TimeoutText

\* the handler of r replied with the Timeout error
TimedOut(r) == Len(responses[r]) = 1 /\ IsTimeoutBody(responses[r][1])

\* the handler of r replied with the result its payload produced
GotResult(r) == Len(responses[r]) = 1 /\ responses[r][1].kind = "result"

\* the handler of r is inside _tool, between registering its entry and
\* removing it
InTool(r) == pc[r] \in {"run", "wait_get", "waiting", "read_result", "read_error", "pop"}

\* C1: whatever a caller receives was produced for its own request identity:
\* every body sent to the caller of r is tagged with r, and the entry of r is
\* written by the script of r only, in whatever order the scripts complete.
C1_OwnResult ==
    \A r \in Requests :
        /\ \A i \in DOMAIN responses[r] : responses[r][i].req = r
        /\ entry[r].writer \in {0, r}

\* C1 witness: the script of a timed-out request r stored late, and another
\* request q received the result of its own payload.
C1_Witness ==
    \E r, q \in Requests :
        /\ r # q
        /\ TimedOut(r) /\ discarded[r] = 1
        /\ GotResult(q) /\ responses[q][1].req = q /\ signals[q] = 1

\* C2: the caller of a request observes exactly one delivery: nothing before
\* the handler finishes, and exactly one body (a result, an error or the
\* Timeout) once it has finished.
C2_OneDelivery ==
    \A r \in Requests :
        /\ Len(responses[r]) <= 1
        /\ pc[r] = "done" <=> Len(responses[r]) = 1

\* C2 witness: one request was answered with a real result and another with
\* the Timeout, although the script of the latter also ran.
C2_Witness ==
    \E r, q \in Requests :
        /\ pc[r] = "done" /\ pc[q] = "done"
        /\ GotResult(r) /\ TimedOut(q) /\ opRan[q]

\* C3: an entry is in the correlation map only while its handler is inside
\* _tool; once every request has returned to its caller the map is empty.
C3_MapReclaimed ==
    /\ \A r \in pending_results : InTool(r)
    /\ (\A r \in Requests : pc[r] = "done") => pending_results = {}

\* C3 witness: all requests have returned, one by delivery and one by
\* timeout.
C3_Witness ==
    /\ \A r \in Requests : pc[r] = "done"
    /\ \E r, q \in Requests : signals[r] = 1 /\ GotResult(r) /\ TimedOut(q) /\ signals[q] = 0
    /\ pending_results = {}

\* C4: a step of the main thread made for a request whose entry the caller
\* has already removed adds no entry to the map, changes no other request's
\* entry and raises nothing; the lookup of _store_result finds the entry
\* absent and the call ends there, writing and signalling nothing.
C4_LateWriteDiscarded ==
    [][ (mpc' # mpc /\ cur # 0 /\ cur \notin pending_results)
        => /\ pending_results' = pending_results
           /\ \A q \in Requests \ {cur} : entry'[q] = entry[q]
           /\ ~escaped'
           /\ (mpc = "store_get"
                 => /\ mpc' = "end"
                    /\ entry' = entry
                    /\ signals' = signals
                    /\ discarded'[cur] = discarded[cur] + 1) ]_vars

\* C4 witness: a payload ran for a request that had timed out, its one call
\* of _store_result found no entry and signalled nothing.
C4_Witness ==
    \E r \in Requests :
        /\ TimedOut(r) /\ opPhase[r] = "finished"
        /\ storeCalls[r] = 1 /\ discarded[r] = 1 /\ signals[r] = 0
        /\ r \notin pending_results

\* C5: a handler is never held in event.wait beyond the budget of its
\* method by a full unit of time or more; a request whose entry was never
\* written is answered with the Timeout error; and every request that
\* entered _tool is eventually answered, whatever the main thread does.
C5_BoundedWait ==
    /\ [](\A r \in Requests :
            /\ pc[r] = "waiting" => elapsed[r] < ToolTimeout(method[r]) + TickSeconds
            /\ (pc[r] = "done" /\ method[r] \in ToolMethods /\ entry[r].writer = 0)
                  => TimedOut(r))
    /\ \A r \in Requests : (pc[r] = "tool") ~> (pc[r] = "done")

\* C5 witness: a script is still waiting in the queue of the main thread
\* while its caller, having waited for the whole budget, got the Timeout.
C5_Witness ==
    \E r \in Requests :
        /\ TimedOut(r) /\ opPhase[r] = "queued" /\ entry[r].writer = 0
        /\ ~entry[r].event

Range(f) == {f[i] : i \in DOMAIN f}

IsPrefixSeq(a, b) == Len(a) <= Len(b) /\ SubSeq(b, 1, Len(a)) = a

\* C6: for every payload the main thread has run to its end there was
\* exactly one call of _store_result; with the request's entry registered,
\* that call wrote the result or the error and set the event exactly once
\* (a call that finds the entry already removed by its caller is the late
\* write of C4); no entry is ever signalled twice.
C6_SignalOnce ==
    \A r \in Requests :
        /\ signals[r] <= 1
        /\ storeCalls[r] <= 1
        /\ (opRan[r] /\ opPhase[r] = "finished")
              => /\ storeCalls[r] = 1
                 /\ signals[r] + discarded[r] = 1
        /\ signals[r] = 1
              => /\ entry[r].event
                 /\ entry[r].writer = r
                 /\ (entry[r].result # NoResult \/ entry[r].error # NoError)

\* C6 witness: the protected branch of _run_delete stored its "skipped"
\* result, signalled once and returned.
C6_Witness ==
    \E r \in Requests :
        /\ method[r] = "delete" /\ arg[r] = ControlDat
        /\ opPhase[r] = "finished" /\ signals[r] = 1 /\ storeCalls[r] = 1
        /\ entry[r].result = ResultBody(r, "skipped", {ControlDat})

C8_SubmissionOrder ==
    /\ IsPrefixSeq(startOrder, submitOrder)
    /\ Cardinality({r \in Requests : opPhase[r] = "running"}) <= 1
    /\ \A r \in Requests : opPhase[r] = "running" <=> (cur = r /\ mpc # "idle")

\* C8 witness: two creations under /project1 were both waiting in the queue
\* and then ran one after the other in submission order.
C8_Witness ==
    \E r, q \in Requests :
        /\ r < q
        /\ TimedOut(r)
        /\ submitOrder = <<r, q>> /\ startOrder = <<r, q>>
        /\ effects = << <<r, "create", ChildPath("circle", 1)>>,
                        <<q, "create", ChildPath("circle", 2)>> >>

\* C9 as stated: no command is carried out on the handler thread.
C9_NothingOnHandlerThread ==
    \A r \in Requests : execThread[r] # "http"

\* C9 as amended: the commands _handle_mcp passes to _tool are handed to the
\* queue of the main thread and their payloads run only there; the handler
\* thread itself carries out only set_dat and types_json, which never
\* become a script.
C9_ToolCommandsOnMain ==
    \A r \in Requests :
        /\ execThread[r] = "http"
              => (method[r] \in {"set_dat", "types_json"} /\ opPhase[r] = "none")
        /\ (method[r] \in ToolMethods /\ pc[r] = "done")
              => (execThread[r] # "http" /\ r \in Range(submitOrder))
        /\ opRan[r] => (method[r] \in ToolMethods /\ r \in Range(startOrder))

\* C9 witness: one request ran its payload on the main thread, another was
\* a set_dat served by the handler.
C9_Witness ==
    \E r, q \in Requests :
        /\ method[r] = "set_dat" /\ execThread[r] = "http" /\ dat_path = GonePath
        /\ method[q] \in ToolMethods /\ execThread[q] = "main"

\* C10: the script of a caller that received the Timeout is not withdrawn:
\* it is still in the queue, running, or has run; the caller's entry is gone
\* from the map; and when a creation has run for it the node is in the log
\* of graph mutations.
C10_TimeoutKeepsWork ==
    \A r \in Requests :
        TimedOut(r)
           => /\ r \notin pending_results
              /\ opPhase[r] \in {"queued", "running", "finished"}
              /\ opPhase[r] = "queued" => \E i \in DOMAIN queue : queue[i].rid = r
              /\ (opPhase[r] = "finished" /\ opRan[r] /\ method[r] = "create"
                    /\ raised[r] = "")
                    => \E i \in DOMAIN effects :
                          effects[i][1] = r /\ effects[i][2] = "create"
                          
\* C10 witness: a creation ran after its caller had received the Timeout,
\* and the node it created is in the graph.
C10_Witness ==
    \E r \in Requests :
        /\ TimedOut(r) /\ method[r] = "create" /\ discarded[r] = 1
        /\ opPhase[r] = "finished"
        /\ <<r, "create", ChildPath("circle", 1)>> \in Range(effects)
        /\ ChildPath("circle", 1) \in nodes

\* C11: while the handler of one request is blocked in event.wait, the
\* server can take up the request of another caller (and so a second entry
\* can be registered next to the first).
C11_ConcurrentCallers ==
    \A r, q \in Requests :
        (pc[r] = "waiting" /\ FreshId(q)) => ENABLED do_POST(q)

\* the error the dispatch script means to store when it finds neither the
\* module nor a control DAT (line 2145)
UnavailableText == "Control module/DAT unavailable"

\* C12: when the script of a request has run to its end without reaching
\* the module or the control DAT, and its caller is still waiting, the
\* caller's entry holds the DispatchUnavailable error and is signalled.
C12_UnavailableReported ==
    \A r \in Requests :
        (pc[r] = "waiting" /\ opPhase[r] = "finished" /\ ~opRan[r])
           => (entry[r].event /\ entry[r].error = UnavailableText)

\* the position of a valid operator
XY(p) == <<ops[p].X, ops[p].Y>>

\* the operators whose position _run_create chose itself
AutoPlaced == {p \in nodes : ops[p].placed \in {"grid", "aligned"}}

\* C13 as stated: when every child of the parent was created without an
\* explicit position, no two valid children have equal positions.
C13_NoCollision ==
    (AutoPlaced = nodes)
       => \A p, q \in nodes : p # q => XY(p) # XY(q)

\* C13 as amended: an operator placed automatically whose retry loop ended
\* before its last nudge does not have the position of a child that
\* was there when it was placed; only a placement that used up all 50
\* nudges may end on an occupied cell.
C13_NoCollisionWithinBudget ==
    \A p, q \in nodes :
        (p # q /\ XY(p) = XY(q) /\ ops[p].serial < ops[q].serial /\ q \in AutoPlaced)
           => ops[q].tries = MaxTries

\* C13 witness: a graph of at least four children, all placed
\* automatically, some by the grid walk and some aligned to a source after
\* one or more nudges, no two at the same position.
C13_Witness ==
    /\ Cardinality(nodes) >= 4
    /\ AutoPlaced = nodes
    /\ \E p, q \in nodes :
          /\ ops[p].placed = "grid" /\ ops[q].placed = "aligned"
          /\ ops[q].tries >= 2 /\ ops[q].tries < MaxTries
    /\ \A p, q \in nodes : p # q => XY(p) # XY(q)

\* C14: two creations without an explicit position, submitted one after
\* the other under the parent whose grid cells are free (nothing has been
\* deleted), end in distinct adjacent cells: the second one column to the
\* right of the first, the first of all at (0, 0).
C14_AdjacentCells ==
    (\A k \in DOMAIN effects : effects[k][2] = "create")
       => /\ effects # <<>> => XY(effects[1][3]) = <<0, 0>>
          /\ \A i \in DOMAIN effects :
                (i + 1) \in DOMAIN effects
                   => /\ XY(effects[i][3]) # XY(effects[i + 1][3])
                      /\ XY(effects[i + 1][3])
                            = <<ops[effects[i][3]].X + spacing_x, ops[effects[i][3]].Y>>

\* C14 witness: the caller of the first creation had given up before its
\* script ran, the second creation was submitted after it; the two
\* operators ended at (0, 0) and at (220, 0).
C14_Witness ==
    \E r, q \in Requests :
        /\ r # q /\ method[r] = "create" /\ method[q] = "create"
        /\ submitOrder = <<r, q>> /\ TimedOut(r) /\ discarded[r] = 1
        /\ opPhase[q] = "finished"
        /\ nodes = {ControlDat, ChildPath("circle", 1), ChildPath("circle", 2)}
        /\ XY(ChildPath("circle", 1)) = <<0, 0>>
        /\ XY(ChildPath("circle", 2)) = <<spacing_x, 0>>

\* the last call of _run_create returned a result for a new operator
Created == call.valid /\ call.exc = ""

\* C15: a creation given both nodex and nodey puts the new operator exactly
\* there and reports that position, whether or not a sibling has it already.
C15_ExplicitVerbatim ==
    (Created /\ call.params.nodex # <<>> /\ call.params.nodey # <<>>)
       => /\ call.after[call.path].X = call.params.nodex[1]
          /\ call.after[call.path].Y = call.params.nodey[1]
          /\ call.after[call.path].placed = "explicit"
          /\ call.result.position = <<call.params.nodex[1], call.params.nodey[1]>>

\* C15 witness: the explicit position (0, 0) was that of a sibling already;
\* the new operator sits on it.
C15_Witness ==
    /\ Created /\ call.params.nodex # <<>> /\ call.params.nodey # <<>>
    /\ \E c \in DOMAIN call.before : <<call.before[c].X, call.before[c].Y>> = <<0, 0>>
    /\ \E c \in DOMAIN call.after :
          /\ c # call.path
          /\ call.after[c].X = call.after[call.path].X
          /\ call.after[c].Y = call.after[call.path].Y
    /\ call.after[call.path].X = 0 /\ call.after[call.path].Y = 0

\* the result of the last call says that connector i of the new operator
\* could not be wired: the only field of the result about connectors is
\* 'connections' (lines 896-902)
ReportsUnsatisfied(i) ==
    \E c \in DOMAIN call.result.connections :
        /\ call.result.connections[c].slot = i
        /\ call.result.connections[c].how \notin {"explicit", "auto"}

\* C16: when _run_create has returned a result for an operator whose type
\* requires k inputs, each of the connectors 0 .. k-1 of the new operator is
\* wired, or the result says that this connector could not be wired.
C16_RequiredInputsOrReport ==
    Created
       => \A i \in 0 .. (RequiredInputs(call.after[call.path].type) - 1) :
             Connected(call.after, call.path, i) \/ ReportsUnsatisfied(i)

\* the same-family operators that were in the parent when the last call of
\* _run_create began
SiblingsBefore ==
    {c \in DOMAIN call.before : call.before[c].family = call.after[call.path].family}

\* C17: a creation without explicit source of a type requiring 2 inputs,
\* in a parent holding exactly one operator of the family, wires one of the
\* two required connectors to that sibling and the other to a fallback
\* source made by this call.
C17_SiblingPlusFallback ==
    (/\ Created
     /\ call.params.connect_source = <<>>
     /\ RequiredInputs(call.after[call.path].type) = 2
     /\ Cardinality(SiblingsBefore) = 1)
       => LET ins == call.after[call.path].inputs
          IN /\ Len(ins) = 2
             /\ \E i, j \in {1, 2} :
                   /\ i # j
                   /\ ins[i] \in SiblingsBefore
                   /\ ins[j] \in call.fallbacks

\* the same-family siblings of the new operator that are furthest right
Rightmost == {c \in SiblingsBefore : \A d \in SiblingsBefore : call.before[d].X <= call.before[c].X}

\* C18: a creation with auto_connect and no connect_source, in a parent
\* holding operators of the family, wires input 0 of the new operator to
\* the sibling of the family with the greatest nodeX, and when several
\* share that nodeX to the one of them created last.
C18_RightmostNewest ==
    (/\ Created
     /\ call.params.connect_source = <<>>
     /\ call.params.auto_connect
     /\ SiblingsBefore # {})
       => /\ Connected(call.after, call.path, 0)
          /\ call.after[call.path].inputs[1] \in Rightmost
          /\ \A d \in Rightmost :
                call.before[d].serial <= call.before[call.after[call.path].inputs[1]].serial

\* the last call was given a connect_source that named no operator when the
\* call began, nor the operator the call was about to create
SourceUnresolved ==
    /\ call.valid
    /\ call.params.connect_source # <<>>
    /\ call.params.connect_source \notin DOMAIN call.after

\* the result of the last call says that its connect_source was not wired:
\* 'connections' (lines 896-902) is the only field that names sources
SoftFailureEmitted ==
    \E c \in DOMAIN call.result.connections :
        /\ call.result.connections[c].src = call.params.connect_source
        /\ call.result.connections[c].how \notin {"explicit", "auto"}

\* what the code does for a connect_source that does not resolve: no
\* exception, the operator is created and reported, nothing is wired to the
\* source
ProceedsUnconnected ==
    /\ call.exc = ""
    /\ call.path \in DOMAIN call.after /\ call.path \notin DOMAIN call.before
    /\ call.result.kind = "result" /\ call.result.data = {call.path}
    /\ \A c \in DOMAIN call.result.connections :
          call.result.connections[c].src # call.params.connect_source
    /\ \A p \in DOMAIN call.after : \A k \in DOMAIN call.after[p].inputs :
          call.after[p].inputs[k] # call.params.connect_source

\* C19: a creation whose connect_source does not resolve raises nothing,
\* creates the operator, returns a success result, wires nothing to that
\* source, and tells the caller that the source was not wired.
C19_SoftFailure ==
    SourceUnresolved => (ProceedsUnconnected /\ SoftFailureEmitted)

\* the requests that ask _run_delete to delete the protected control DAT
ProtectedDeletes == {r \in Requests : method[r] = "delete" /\ IsProtectedPath(arg[r])}

\* C20: a delete of a protected operator never destroys it: the operator
\* stays valid, no such delete takes effect, the payload stores the result
\* "skipped" (reason: protected) for its caller, and a caller that receives
\* a result receives that one.
C20_ProtectedRefused ==
    /\ PROTECTED_PATHS \subseteq nodes
    /\ \A r \in ProtectedDeletes :
          /\ \A i \in DOMAIN effects : effects[i] # <<r, "delete", arg[r]>>
          /\ (opRan[r] /\ opPhase[r] = "finished" /\ signals[r] = 1)
                => /\ entry[r].result = ResultBody(r, "skipped", {arg[r]})
                   /\ entry[r].error = NoError
          /\ GotResult(r) => responses[r][1] = ResultBody(r, "skipped", {arg[r]})
          /\ Len(responses[r]) = 1 => (GotResult(r) \/ TimedOut(r))

\* C20 witness: the caller of a delete of the control DAT has received the
\* "skipped" result and the control DAT is still a valid child, next to an
\* operator created meanwhile.
C20_Witness ==
    \E r \in ProtectedDeletes :
        /\ arg[r] = ControlDat
        /\ GotResult(r) /\ responses[r][1].op = "skipped"
        /\ pc[r] = "done"
        /\ ControlDat \in nodes /\ Cardinality(nodes) = 2

\* the last call of _run_set stored a constant value in a parameter
ValueSet == call.valid /\ call.exc = "" /\ ~call.params.expression

\* the parameter the last call of _run_set wrote, before and after the call
ParBefore == call.before[call.params.path].par[call.name[1]]
ParAfter == call.after[call.params.path].par[call.name[1]]

BaseOf(label) == norm_name(SYNONYM_MAP_get(LowerStr(label), label))

\* _resolve_type, line 305: the candidates of a label
CandidatesOf(label) ==
    IF BaseOf(label) \in DOMAIN OP_TYPES_NORMALIZED THEN OP_TYPES_NORMALIZED[BaseOf(label)]
    ELSE <<>>

\* the families of the candidates of a label
CandidateFamilies(label) == {CandidatesOf(label)[k].fam : k \in DOMAIN CandidatesOf(label)}

\* the class names the registry holds
RegisteredNames ==
    UNION { {OP_TYPES_BY_FAMILY[fam][k] : k \in DOMAIN OP_TYPES_BY_FAMILY[fam]} :
              fam \in DOMAIN OP_TYPES_BY_FAMILY }

\* the priority order the specification states: Visual, Channel, Geometry,
\* Container, Material, Data
StatedPriority == <<<<"T", "O", "P">>, <<"C", "H", "O", "P">>, <<"S", "O", "P">>, <<"C", "O", "M", "P">>, <<"M", "A", "T">>, <<"D", "A", "T">>>>

\* the family of fams that comes first in the stated priority order
FirstByPriority(fams) ==
    StatedPriority[CHOOSE k \in DOMAIN StatedPriority :
                      /\ StatedPriority[k] \in fams
                      /\ \A j \in 1 .. (k - 1) : StatedPriority[j] \notin fams]

\* the last call of _resolve_type had no family hint and a label whose base
\* token has candidates in more than one family
AmbiguousCall ==
    /\ call.valid /\ call.family_hint = None /\ call.label # <<>>
    /\ Cardinality(CandidateFamilies(call.label)) > 1

\* C22 as stated: without a hint, a label whose base token has candidates
\* in more than one family resolves to the candidate of the family that
\* comes first in TOP > CHOP > SOP > COMP > MAT > DAT.
C22_FamilyPriority ==
    AmbiguousCall
       => /\ call.result # None
          /\ FamilyOfName(call.result) = FirstByPriority(CandidateFamilies(call.label))
          /\ \E k \in DOMAIN CandidatesOf(call.label) : CandidatesOf(call.label)[k].name = call.result

\* C22 as amended: without a hint, a label that is not itself a registered
\* class name and whose base token has candidates in more than one family
\* resolves to the candidate of the family DEFAULT_FAMILY_HINTS gives for
\* the base token when there is such a candidate, and, when the table has
\* no entry for the base token, to the candidate of the family that comes
\* first in TOP > CHOP > SOP > COMP > MAT > DAT.
C22_DefaultThenPriority ==
    (AmbiguousCall /\ call.label \notin RegisteredNames)
       => LET dflt == DEFAULT_FAMILY_HINTS_get(BaseOf(call.label))
              fams == CandidateFamilies(call.label)
          IN /\ (dflt # None /\ dflt \in fams)
                   => /\ call.result # None /\ FamilyOfName(call.result) = dflt
                      /\ BaseOf(call.result) = BaseOf(call.label)
             /\ dflt = None
                   => /\ call.result # None
                      /\ FamilyOfName(call.result) = FirstByPriority(fams)
                      /\ BaseOf(call.result) = BaseOf(call.label)

\* C22 witness: "in", which has an inCHOP, an inSOP and an inTOP and no
\* default family, was resolved to inTOP, and "constant", whose default
\* family is CHOP, to constantCHOP.
C22_Witness ==
    /\ Len(effects) = 2
    /\ effects[1][3].label = <<"i", "n">> /\ effects[1][3].family_hint = None
    /\ effects[1][3].result = <<"i", "n", "T", "O", "P">>
    /\ AmbiguousCall
    /\ call.label = <<"c", "o", "n", "s", "t", "a", "n", "t">>
    /\ call.result = <<"c", "o", "n", "s", "t", "a", "n", "t", "C", "H", "O", "P">>

\* the two indexes _collect_td_op_types builds from the class names of a
\* host with few and with many operator classes
PlainRegistry == <<CollectByFamily(TdTypesPlain), CollectNormalized(TdTypesPlain)>>
RichRegistry == <<CollectByFamily(TdTypesRich), CollectNormalized(TdTypesRich)>>

\* C23: calls of _resolve_type with the same label and the same hint have
\* returned the same type, the type the last call returned is the one the
\* index gives for its label and hint after the call, and the index is
\* still the one built from the class names of the host when the module
\* was imported.
C23_ResolveIsPure ==
    /\ \A i, j \in DOMAIN effects :
          (effects[i][3].label = effects[j][3].label
             /\ effects[i][3].family_hint = effects[j][3].family_hint)
             => effects[i][3].result = effects[j][3].result
    /\ effects # <<>>
          => call.result = ResolveType(call.label, call.family_hint,
                                       OP_TYPES_BY_FAMILY, OP_TYPES_NORMALIZED)
    /\ <<OP_TYPES_BY_FAMILY, OP_TYPES_NORMALIZED>> \in {PlainRegistry, RichRegistry}

\* C23 witness: "null sop" with the hint "SOPs" was resolved twice, both
\* times to nullSOP.
C23_Witness ==
    /\ Len(effects) = 2
    /\ effects[1][3] = effects[2][3]
    /\ call.label = <<"n", "u", "l", "l", " ", "s", "o", "p">> /\ call.family_hint = <<"S", "O", "P", "s">>
    /\ call.result = <<"n", "u", "l", "l", "S", "O", "P">>

\* C24: a label that is not itself a class name and whose base token has
\* exactly one candidate resolves to that candidate, whatever the hint; in
\* the registry of circleTOP and circleGenCHOP, "circle" without a hint
\* resolves to circleTOP.
C24_UniqueCandidate ==
    /\ (call.valid /\ call.label # <<>> /\ call.label \notin RegisteredNames
          /\ Len(CandidatesOf(call.label)) = 1)
          => call.result = CandidatesOf(call.label)[1].name
    /\ (call.valid /\ call.label = <<"c", "i", "r", "c", "l", "e">> /\ call.family_hint = None
          /\ OP_TYPES_NORMALIZED = CollectNormalized(TdTypesPlain))
          => call.result = <<"c", "i", "r", "c", "l", "e", "T", "O", "P">>

\* C24 witness: the registry holds circleTOP and circleGenCHOP; "circle"
\* was resolved without a hint; its base token has the one candidate
\* circleTOP, which was returned.
C24_Witness ==
    /\ call.valid /\ call.label = <<"c", "i", "r", "c", "l", "e">> /\ call.family_hint = None
    /\ RegisteredNames = {<<"c", "i", "r", "c", "l", "e", "T", "O", "P">>, <<"c", "i", "r", "c", "l", "e", "G", "e", "n", "C", "H", "O", "P">>}
    /\ Len(CandidatesOf(call.label)) = 1
    /\ call.result = <<"c", "i", "r", "c", "l", "e", "T", "O", "P">>
    /\ FamilyOfName(call.result) = <<"T", "O", "P">>

\* the family whose suffix a label carries at its end once lower-cased and
\* freed of blanks, dashes and underscores (the suffix _norm_name cuts off
\* first); None when it carries none
SuffixFamily(label) ==
    LET flat == SelectSeq(LowerStr(label), LAMBDA c : c \notin {" ", "-", "_"})
        suf == FirstThat(NormSuffixes, LAMBDA x : EndsWith(flat, x))
    IN IF suf = None THEN None ELSE UpperStr(suf)

\* C26: a label that carries a family suffix, given without a hint,
\* resolves to the candidate of that family whenever its base token has a
\* candidate in that family.
C26_SuffixDecidesFamily ==
    (/\ call.valid /\ call.family_hint = None /\ call.label # <<>>
     /\ SuffixFamily(call.label) # None
     /\ SuffixFamily(call.label) \in CandidateFamilies(call.label))
       => /\ call.result # None
          /\ FamilyOfName(call.result) = SuffixFamily(call.label)
          /\ BaseOf(call.result) = BaseOf(call.label)

\* C25: the connection_history of either server module never holds more
\* than maxlen records, a call only ever appends to it, and an append to a
\* full log drops exactly its oldest record.
C25_HistoryBounded ==
    /\ \A m \in ServerModules : Len(connection_history[m]) <= maxlen
    /\ (call.valid /\ call.after # call.before)
          => /\ call.after[Len(call.after)].stamp = Len(effects)
             /\ IF Len(call.before) < maxlen
                THEN call.after = Append(call.before, call.after[Len(call.after)])
                ELSE call.after = Append(Tail(call.before), call.after[Len(call.after)])

\* the handler of r is about to return and its wait ended before the
\* budget ran out: event.wait returned because the event had been set, so
\* _store_result had written both slots and signalled
DeliveredWhileWaiting(r) ==
    /\ pc[r] = "return"
    /\ method[r] \in ToolMethods
    /\ entry[r].event
    /\ elapsed[r] < WaitTimeout(r)

\* what _store_result delivered to the entry of r: the error if one was
\* given, else the result
Delivered(r) ==
    IF entry[r].error # NoError THEN ErrorBody(r, entry[r].error) ELSE entry[r].result

\* C27: a caller whose wait was ended by the delivery returns what was
\* delivered, the result or the error, and never the Timeout error.
C27_DeliveredIsReturned ==
    [][ \A r \in Requests :
          (DeliveredWhileWaiting(r) /\ pc'[r] = "done")
             => /\ responses'[r] = <<Delivered(r)>>
                /\ ~TimedOut(r)' ]_vars

\* C28: whatever renames came before, a delete that targets the operator
\* that was registered as protected is answered "skipped" and destroys
\* nothing: the operator is still valid.
C28_ProtectionFollowsNode ==
    (call.valid /\ call.fn = "delete" /\ call.target = {ControlId})
        => /\ call.skipped
           /\ call.after = call.before
           /\ ControlId \in DOMAIN ops

\* the ancestors of an operator, the root included
RECURSIVE AncestorsOf(_, _)
AncestorsOf(g, id) ==
    IF id = RootId THEN {} ELSE {g[id].parent} \cup AncestorsOf(g, g[id].parent)

\* C29: while the protected operator has the path it was registered with, a
\* delete of any of its ancestors, the root included, is answered "skipped"
\* and destroys nothing, so the protected operator stays valid.
C29_AncestorsRefused ==
    (/\ call.valid /\ call.fn = "delete"
     /\ ControlId \in DOMAIN call.before
     /\ PathOf(call.before, ControlId) \in PROTECTED_PATHS
     /\ call.target # {}
     /\ call.target \subseteq AncestorsOf(call.before, ControlId))
        => /\ call.skipped
           /\ call.after = call.before
           /\ ControlId \in DOMAIN ops

\* operator f sits in a grid cell next to that of operator p: at most one
\* column and one row away, and not in the same place
AdjacentTo(g, f, p) ==
    /\ <<g[f].X, g[f].Y>> # <<g[p].X, g[p].Y>>
    /\ g[f].X - g[p].X \in {0 - spacing_x, 0, spacing_x}
    /\ g[f].Y - g[p].Y \in {0 - spacing_y, 0, spacing_y}

\* fallback source f of the last creation feeds a connector of the new
\* operator
FallbackConnected(f) ==
    \E k \in DOMAIN call.after[call.path].inputs : call.after[call.path].inputs[k] = f

\* C30: every fallback source the last creation made was given its position
\* by the program, in a cell adjacent to the new operator, and is wired to
\* a connector of the new operator.
C30_FallbackAdjacentConnected ==
    Created =>
        \A f \in call.fallbacks :
            /\ call.after[f].placed # "host"
            /\ AdjacentTo(call.after, f, call.path)
            /\ FallbackConnected(f)

\* the last creation scored its siblings with _find_best_connection
ScoredByBest == call.valid /\ call.how = "best" /\ call.scored # <<>>

\* C31: of two scored siblings of the same type, the one created later has
\* the strictly higher score, and the one created earlier is not the one
\* selected.
C31_RecentScoresHigher ==
    ScoredByBest =>
        \A i, j \in DOMAIN call.scored :
            LET a == call.scored[i].child
                b == call.scored[j].child
            IN (ops[a].type = ops[b].type /\ ops[a].serial > ops[b].serial)
                  => /\ call.scored[i].score > call.scored[j].score
                     /\ call.best # b

\* the last creation scored its siblings in the strength loop
ScoredByStrength == call.valid /\ call.how = "strength" /\ call.scored # <<>>

\* the highest strength among the scored siblings
MaxScore == MaxOf({call.scored[i].score : i \in DOMAIN call.scored})

\* the debug line names the scored sibling e together with its score
DiagnosticLists(e) ==
    \E k \in DOMAIN call.diagnostic :
        /\ call.diagnostic[k].name = e.child[Len(e.child)]
        /\ "score" \in DOMAIN call.diagnostic[k]
        /\ call.diagnostic[k].score = e.score

\* C32: when the highest strength is below the threshold of the mode, no
\* source is chosen and the diagnostic lists every scored sibling with its
\* score; otherwise a sibling of the highest strength is chosen.
C32_ThresholdOrDiagnostic ==
    ScoredByStrength =>
        IF MaxScore < connection_threshold(call.mode)
        THEN /\ call.best = None
             /\ \A i \in DOMAIN call.scored : DiagnosticLists(call.scored[i])
        ELSE \E i \in DOMAIN call.scored :
                call.scored[i].child = call.best /\ call.scored[i].score = MaxScore

\* the last call was a successful _run_ensure_inputs
Ensured == call.valid /\ "fn" \in DOMAIN call /\ call.fn = "ensure" /\ call.exc = ""

\* C33: after a successful ensure_inputs(path, min_inputs = m) the node at
\* path has at least m connected inputs (m = 2 when none is given).
C33_AtLeastMinInputs ==
    Ensured =>
        CountInputs(ops, call.params.path)
            >= (IF call.params.min_inputs = None THEN 2 ELSE call.params.min_inputs[1])

\* C34: a successful _run_ensure_inputs that directly follows a successful
\* one for the same node changes nothing: no operator is added and no
\* connection, position or parameter differs.
C34_EnsureIdempotent ==
    [][ (/\ Ensured
         /\ "fn" \in DOMAIN call' /\ call'.fn = "ensure" /\ call'.exc = ""
         /\ call'.params.path = call.params.path
         /\ Len(effects') = Len(effects) + 1)
           => (ops' = ops /\ nodes' = nodes) ]_vars

\* C34 witness: the first of two successive calls for one node wired a
\* fallback source to it, and the second one found the graph as the first
\* had left it.
C34_Witness ==
    /\ Ensured
    /\ Len(effects) >= 2
    /\ effects[Len(effects)][2] = "ensure" /\ effects[Len(effects) - 1][2] = "ensure"
    /\ effects[Len(effects)][3] = effects[Len(effects) - 1][3]
    /\ effects[Len(effects) - 1][4]
    /\ call.before = call.after
    /\ \E k \in DOMAIN ops[call.params.path].inputs :
          /\ ops[call.params.path].inputs[k] # <<>>
          /\ ops[call.params.path].inputs[k][Len(ops[call.params.path].inputs[k])][1] = "mcp_const"

C36_EmptyBaseIsUnknown ==
    (/\ call.valid
     /\ "label" \in DOMAIN call
     /\ call.label # <<>>
     /\ norm_name(SYNONYM_MAP_get(LowerStr(call.label), call.label)) = <<>>)
        => call.result = None

\* C37: with the placement by child count of td_mcp_server.py, after any
\* sequence of auto-placed creations and deletions under one parent no two
\* valid children have the same position
C37_CountCellsDistinct ==
    \A p \in DOMAIN ops : \A q \in DOMAIN ops :
        (/\ p # q
         /\ ops[p].placed = "count"
         /\ ops[q].placed = "count")
            => <<ops[p].X, ops[p].Y>> # <<ops[q].X, ops[q].Y>>

\* the last call of _run_create found its connect_source and read an index
\* from a connect_parameter of the form input<N>
SlotAttempted ==
    /\ call.valid
    /\ "params" \in DOMAIN call
    /\ "connect_parameter" \in DOMAIN call.params
    /\ call.exc = ""
    /\ call.params.connect_source \in DOMAIN call.before
    /\ SlotIndex(call.params.connect_parameter) # None

\* C38: the index handed to _connect_input for a connect_parameter input<N>
\* is never negative, and a connection that was made is reported at that
\* index
C38_SlotNeverNegative ==
    SlotAttempted =>
        /\ SlotIndex(call.params.connect_parameter)[1] >= 0
        /\ \A k \in DOMAIN call.result.connections :
              call.result.connections[k].slot = SlotIndex(call.params.connect_parameter)[1]

\* the distance between the offsets of two neighbouring families, line 701
BandHeight == 300

\* y lies in the band of family fam: from its offset down to the offset of
\* the next family
InBand(y, fam) == fam_offsets(fam) - BandHeight < y /\ y <= fam_offsets(fam)

\* C39: a grid-placed operator gets a y inside the band of its family,
\* whatever the number of siblings of its family
C39_GridStaysInBand ==
    (/\ call.valid
     /\ "path" \in DOMAIN call
     /\ call.exc = ""
     /\ call.after[call.path].placed = "grid")
        => InBand(call.after[call.path].Y, call.after[call.path].family)

\* the number of nudges after which placement goes on with the candidate it
\* has, lines 739 and 752
NudgeBudget == 50

\* the last call of _run_create named a type the program knows
CreateOfKnownType ==
    /\ call.valid
    /\ "params" \in DOMAIN call
    /\ "type" \in DOMAIN call.params
    /\ call.params.type # <<>>
    /\ TypeOf(call.params.type) # NoType

\* C40: the retry of auto placement is bounded: no operator was nudged more
\* than 50 times, an aligned operator that used all 50 nudges sits at the
\* candidate reached by them, and a creation of a known type ends with the
\* operator made, whatever the placement met
C40_RetryBounded ==
    /\ \A p \in AutoPlaced : ops[p].tries <= NudgeBudget
    /\ CreateOfKnownType =>
          /\ call.exc = ""
          /\ call.path \in DOMAIN call.after
          /\ (/\ call.after[call.path].placed = "aligned"
              /\ call.after[call.path].tries = NudgeBudget)
                 => /\ call.after[call.path].X =
                          call.before[call.params.connect_source].X
                             + spacing_x * (NudgeBudget + 1)
                    /\ call.after[call.path].Y = call.before[call.params.connect_source].Y

\* a creation aligned to a source has used all 50 nudges and has made its
\* operator on the cell it ended on, which another operator holds
C40_Witness ==
    /\ CreateOfKnownType
    /\ call.exc = ""
    /\ call.after[call.path].placed = "aligned"
    /\ call.after[call.path].tries = NudgeBudget
    /\ \E q \in DOMAIN call.before :
          <<call.before[q].X, call.before[q].Y>>
             = <<call.after[call.path].X, call.after[call.path].Y>>

====
